---- MODULE Spec2Model ----
(***************************************************************************)
(* Consumption gateway of the LLM marketplace: token-bucket rate limiter,  *)
(* monthly quota manager and the Consume pipeline                          *)
(* (services/consumption/src).                                             *)
(*                                                                         *)
(* Time is the wall clock in whole seconds (Utc::now().timestamp()).  All  *)
(* quantities of the rate-limit script are integers when its arguments     *)
(* are (capacity, rate, now and requested are integers and a bucket starts *)
(* at capacity), so Lua's doubles are modelled exactly by Int.             *)
(***************************************************************************)
EXTENDS Integers, Sequences, FiniteSets, TLC

VARIABLES
    clock,        \* wall-clock time of the deployment, epoch seconds
    ticks,        \* number of clock advances so far
    bucket,       \* redis hashes ratelimit:{consumer}:{service}
    rlpc,         \* per task: position inside check_rate_limit
    rlArg,        \* per task: key, tier and the `now` it captured
    tierOf,       \* per key: tier of the API key the Checks are made under
    rlChecks,     \* number of script executions so far
    allowedAt,    \* per key: time of execution -> number of allowed Checks
    rlLast,       \* per key: the most recent script execution
    ledger,       \* per key: tokens granted and consumed by the live bucket
    quota,        \* redis strings quota:{consumer}:{service} with their expiry
    apiKeys,      \* table api_keys
    svcTable,     \* table services
    req,          \* per request: position in the Consume pipeline and its context
    usageRecords, \* table usage_records, in insertion order
    servedSum,    \* per key: total_tokens of the requests answered 200 this month
    nextId,       \* source of fresh request ids (Uuid::new_v4)
    events,       \* analytics channel contents
    slaViolations, \* number of rows of table sla_violations
    keyLast,      \* the most recent ApiKeyManager call and its result
    keySeq,       \* number of keys generated so far (source of plaintexts and ids)
    router,       \* one route_with_circuit_breaker call: attempts, sleeps, result
    breaker,      \* the atomics of one CircuitBreaker
    cbTask,       \* per task: position inside CircuitBreaker::execute and its locals
    cbNow,        \* SystemTime::now() in milliseconds, as the breaker reads it
    cbHist,       \* bookkeeping of the executes of the breaker
    streamer,     \* one AnalyticsStreamer: its channel and its worker task
    anHist,       \* bookkeeping of the sends and flushes of the streamer
    policy,       \* one policy validation of the enhanced handler at a time
    costCall,     \* the most recent calculate_cost call: its arguments and results
    durable,      \* table quota_usage: per key the used_tokens of the current month
    slaMon,       \* the most recent SLAMonitor call, the evaluations it spawned
    retry,        \* one with_retry call: its loop and what it came to
    extract,      \* the last body route_request parsed and its UsageInfo
    job           \* background work: one persist_quotas run, the tasks main spawned

rlVars == <<bucket, rlpc, rlArg, tierOf, rlChecks, allowedAt, rlLast, ledger>>
timeVars == <<clock, ticks>>
pipeVars == <<quota, apiKeys, svcTable, req, usageRecords, servedSum, nextId,
              events, slaViolations>>
vars == <<clock, ticks, bucket, rlpc, rlArg, tierOf, rlChecks, allowedAt, rlLast, ledger,
          quota, apiKeys, svcTable, req, usageRecords, servedSum, nextId,
          events, slaViolations,
          keyLast, keySeq, router, breaker, cbTask, cbNow, cbHist,
          streamer, anHist, policy, costCall, slaMon, retry, extract, durable, job>>
auxVars == <<keyLast, keySeq, router, breaker, cbTask, cbNow, cbHist,
             streamer, anHist, policy, costCall, slaMon, retry, extract, durable, job>>

\* what a step of the component `own` leaves alone: the state of the rate
\* limiter and of the pipeline, and the state of every other component; the
\* key manager has the clock and table api_keys of its own, the background
\* jobs have the quota counters
Frame(own) ==
    /\ UNCHANGED rlVars
    /\ UNCHANGED <<svcTable, req, usageRecords, servedSum, nextId, events,
                   slaViolations>>
    /\ IF own = "keys" THEN TRUE
       ELSE UNCHANGED <<clock, ticks, apiKeys, keyLast, keySeq>>
    /\ IF own = "jobs" THEN TRUE ELSE UNCHANGED <<quota, durable, job>>
    /\ IF own = "router" THEN TRUE ELSE UNCHANGED router
    /\ IF own = "breaker" THEN TRUE
       ELSE UNCHANGED <<breaker, cbTask, cbNow, cbHist>>
    /\ IF own = "analytics" THEN TRUE ELSE UNCHANGED <<streamer, anHist>>
    /\ IF own = "policy" THEN TRUE ELSE UNCHANGED policy
    /\ IF own = "cost" THEN TRUE ELSE UNCHANGED costCall
    /\ IF own = "usage" THEN TRUE ELSE UNCHANGED extract
    /\ IF own = "retry" THEN TRUE ELSE UNCHANGED retry
    /\ IF own = "sla" THEN TRUE ELSE UNCHANGED slaMon

----------------------------------------------------------------------------
(* Bounds of the model *)

MaxTicks == 1          \* clock advances per behaviour
MaxChecks == 24        \* rate-limit script executions per behaviour
MaxBurst == 2002       \* script executions of a burst at one instant
MonthLen == 2          \* seconds in a calendar month of the model
StartYear == 1         \* behaviours start in December of this year

Consumers == {"c1"}
Services == {"s1", "s2"}
Pairs == Consumers \X Services
RLPairs == {<<"c1", "s1">>}
RLTasks == {1, 2}

----------------------------------------------------------------------------
(* Calendar: chrono's year()/month() and with_ymd_and_hms(y, m, 1, 0, 0, 0) *)
(* over epoch seconds, with months of MonthLen seconds.                    *)

YearOf(t) == t \div (12 * MonthLen)
MonthOf(t) == ((t \div MonthLen) % 12) + 1
Ymd(y, m) == (y * 12 + (m - 1)) * MonthLen

StartClock == Ymd(StartYear, 12)

----------------------------------------------------------------------------
(* models/mod.rs: ServiceTier *)

Tiers == {"basic", "premium", "enterprise"}

rate_limit(tier) ==
    CASE tier = "basic" -> 10
      [] tier = "premium" -> 100
      [] tier = "enterprise" -> 1000

burst_capacity(tier) ==
    CASE tier = "basic" -> 20
      [] tier = "premium" -> 200
      [] tier = "enterprise" -> 2000

quota_limit(tier) ==
    CASE tier = "basic" -> 100000
      [] tier = "premium" -> 10000000
      [] tier = "enterprise" -> 1000000000

----------------------------------------------------------------------------
(* Arithmetic helpers of the Lua script *)

Max(a, b) == IF a >= b THEN a ELSE b
Min(a, b) == IF a <= b THEN a ELSE b

\* math.ceil(a / b) for integers a >= 0, b > 0
CeilDiv(a, b) == (a + b - 1) \div b

None == -1             \* an unset Option, a nil, a key without expiry

BucketTTL == 3600

NoBucket == [present |-> FALSE, tokens |-> 0, last_update |-> 0, exp |-> 0]

\* lines 44-51: HMGET and tonumber, which gives nil (None) for a field that is
\* absent or not a number; default (capacity, now) when tokens is nil
LoadTokens(b, capacity) ==
    IF b.present /\ b.tokens # None THEN b.tokens ELSE capacity
LoadLastUpdate(b, now) ==
    IF b.present /\ b.tokens # None THEN b.last_update ELSE now

\* a refill that forgets math.min(capacity, ...)
Refill_uncapped(tokens, last_update, capacity, rate, now) ==
    tokens + Max(0, now - last_update) * rate

\* lines 54-56: refill
Refill(tokens, last_update, capacity, rate, now) ==
    Min(capacity, tokens + Max(0, now - last_update) * rate)

\* an admission test that is off by one
Admit_strict(tokens, requested) == tokens > requested

\* line 61: the admission test
Admit(tokens, requested) == tokens >= requested

\* an admitted request whose decrement is lost
Consume_lost(tokens, requested) == tokens

\* line 62: consumption of an admitted request
Consume(tokens, requested) == tokens - requested

\* line 65
RetryAfter(tokens, requested, rate) == CeilDiv(requested - tokens, rate)

\* The whole script (lines 38-71) as a function of the stored hash and ARGV.
\* Result: the hash to store and the reply {allowed, tokens, retry_after}.
Script(b, capacity, rate, now, requested) ==
    LET tokens0 == LoadTokens(b, capacity)
        last0 == LoadLastUpdate(b, now)
        refilled == Refill(tokens0, last0, capacity, rate, now)
        ok == Admit(refilled, requested)
        tokens1 == IF ok THEN Consume(refilled, requested) ELSE refilled
    IN  [allowed |-> IF ok THEN 1 ELSE 0,
         tokens |-> tokens1,
         retry_after |-> IF ok THEN 0 ELSE RetryAfter(refilled, requested, rate),
         refilled |-> refilled,
         pre |-> tokens0,
         last_update |-> now,
         \* line 54: now - last_update with last_update nil is a Lua error,
         \* the script ends there and line 86 returns Err
         error |-> last0 = None]

----------------------------------------------------------------------------
(* RateLimiter::check_rate_limit, rate_limiter.rs:25-109.                  *)
(* The caller reads its clock (line 75), then awaits the script (78-86):   *)
(* two steps, other tasks may run in between.                              *)

NoArg == [pair |-> <<"c1", "s1">>, tier |-> "basic", now |-> 0]
NoLast == [n |-> 0, now |-> 0, refilled |-> 0, pre |-> 0, pre_last |-> 0,
           fresh |-> FALSE, corrupt |-> FALSE, error |-> FALSE,
           overlapped |-> FALSE,
           status |-> [exceeded |-> FALSE, retry_after_seconds |-> -1,
                       remaining |-> 0]]
NoLedger == [base |-> 0, granted |-> 0, consumed |-> 0]

\* line 31-33 and 75: key, rate, capacity, now
RlReadNow(t, p, tier) ==
    /\ rlpc[t] = "idle"
    /\ rlpc' = [rlpc EXCEPT ![t] = "invoke"]
    /\ rlArg' = [rlArg EXCEPT ![t] = [pair |-> p, tier |-> tier, now |-> clock]]
    /\ UNCHANGED <<bucket, tierOf, rlChecks, allowedAt, rlLast, ledger>>

\* lines 88-108: the RateLimitStatus built from the reply
RateLimitStatus(reply) ==
    [exceeded |-> reply.allowed # 1,
     retry_after_seconds |-> IF reply.allowed = 1 THEN -1 ELSE reply.retry_after,
     remaining |-> reply.tokens]

\* the reply of the script call task t is about to make
ScriptOut(t) ==
    Script(bucket[rlArg[t].pair], burst_capacity(rlArg[t].tier),
           rate_limit(rlArg[t].tier), rlArg[t].now, 1)

\* lines 36-86: the script runs atomically inside redis
RlInvoke(t) ==
    /\ rlpc[t] = "invoke"
    /\ LET p == rlArg[t].pair
           out == ScriptOut(t)
       IN  bucket' = IF out.error THEN bucket
                     ELSE [bucket EXCEPT ![p] =
                              [present |-> TRUE, tokens |-> out.tokens,
                               last_update |-> out.last_update,
                               exp |-> clock + BucketTTL]]
    /\ rlpc' = [rlpc EXCEPT ![t] = "idle"]
    /\ rlArg' = [rlArg EXCEPT ![t] = NoArg]
    /\ rlChecks' = rlChecks + 1
    /\ UNCHANGED tierOf

\* bookkeeping of the script call of task t: what it saw, granted and allowed
RlObserve(t) ==
    LET p == rlArg[t].pair
        now == rlArg[t].now
        b == bucket[p]
        out == ScriptOut(t)
        led == IF b.present /\ b.tokens # None THEN ledger[p]
               ELSE [base |-> burst_capacity(rlArg[t].tier), granted |-> 0,
                     consumed |-> 0]
        cnt == IF clock \in DOMAIN allowedAt[p] THEN allowedAt[p][clock] ELSE 0
    IN  IF out.error
        THEN /\ rlLast' = [rlLast EXCEPT ![p].n = @ + 1, ![p].error = TRUE,
                                         ![p].fresh = FALSE, ![p].corrupt = TRUE]
             /\ UNCHANGED <<allowedAt, ledger>>
        ELSE
        /\ allowedAt' = [allowedAt EXCEPT ![p] =
               IF out.allowed = 1 THEN (clock :> (cnt + 1)) @@ allowedAt[p]
               ELSE allowedAt[p]]
        /\ rlLast' = [rlLast EXCEPT ![p] =
               [n |-> rlLast[p].n + 1, now |-> now,
                refilled |-> out.refilled, pre |-> out.pre,
                pre_last |-> LoadLastUpdate(b, now), fresh |-> ~b.present,
                corrupt |-> b.present /\ b.tokens = None, error |-> FALSE,
                overlapped |-> \E u \in RLTasks \ {t} :
                                  rlpc[u] = "invoke" /\ rlArg[u].pair = p,
                status |-> RateLimitStatus(out)]]
        /\ ledger' = [ledger EXCEPT ![p] =
               [base |-> led.base,
                granted |-> led.granted + (out.refilled - out.pre),
                consumed |-> led.consumed + out.allowed]]

\* redis drops a hash whose EXPIRE deadline has passed
ExpireBuckets(b, t) ==
    [p \in Pairs |-> IF b[p].present /\ b[p].exp <= t THEN NoBucket ELSE b[p]]

----------------------------------------------------------------------------
(* QuotaManager, quota_manager.rs *)

NoQuota == [present |-> FALSE, val |-> 0, exp |-> None]

\* lines 225-236
get_quota_reset_time(now) ==
    IF MonthOf(now) = 12 THEN Ymd(YearOf(now) + 1, 1)
    ELSE Ymd(YearOf(now), MonthOf(now) + 1)

\* a limit test that lets a counter sitting exactly at the limit through
QuotaExceeded_strict(remaining_tokens) == remaining_tokens < 0

\* line 45
QuotaExceeded(remaining_tokens) == remaining_tokens <= 0

\* lines 37-67: the QuotaStatus computed from the value GET returned
check_quota(q, tier, now) ==
    LET used_tokens == IF q.present THEN q.val ELSE 0
        total_tokens == quota_limit(tier)
        remaining_tokens == total_tokens - used_tokens
    IN  [used_tokens |-> used_tokens,
         total_tokens |-> total_tokens,
         remaining_tokens |-> remaining_tokens,
         reset_at |-> get_quota_reset_time(now),
         exceeded |-> QuotaExceeded(remaining_tokens)]

\* a quota check that reserves tokens while reading
RedisGet_charging(q) == [present |-> TRUE, val |-> q.val + 1, exp |-> q.exp]

\* lines 37-40: effect of GET on the key
RedisGet(q) == q

\* lines 83-85: INCRBY creates the key without expiry, keeps an existing one
RedisIncr(q, n) ==
    IF q.present THEN [q EXCEPT !.val = @ + n]
    ELSE [present |-> TRUE, val |-> n, exp |-> None]

\* lines 88-91: TTL replies -2 without key, -1 without expiry
RedisTtl(q, t) ==
    IF ~q.present THEN -2 ELSE IF q.exp = None THEN -1 ELSE q.exp - t

\* lines 96-98: EXPIRE
RedisExpire(q, secs, t) ==
    IF ~q.present THEN q
    ELSE IF secs <= 0 THEN NoQuota
    ELSE [q EXCEPT !.exp = t + secs]

\* redis drops a counter whose expiry has passed
ExpireQuotas(q, t) ==
    [p \in Pairs |->
        IF q[p].present /\ q[p].exp # None /\ q[p].exp <= t THEN NoQuota ELSE q[p]]

----------------------------------------------------------------------------
(* ApiKeyManager and ApiKey, api_key_manager.rs and models/mod.rs *)

Salts == {1, 2}

\* api_key_manager.rs:182-192: Argon2 over the key and a salt
hash_key(key, salt) == <<key, salt>>

\* models/mod.rs:60-72
is_valid(k, now) ==
    IF k.revoked_at # None THEN FALSE
    ELSE IF k.expires_at # None /\ now > k.expires_at THEN FALSE
    ELSE TRUE

\* models/mod.rs:74-81
get_tier(k) == IF k.tier \in Tiers THEN k.tier ELSE "basic"

\* api_key_manager.rs:94-106: rows WHERE key_hash = $1
KeysByHash(keys, h) == {k \in keys : k.key_hash = h}

\* consumption.rs:59-69: latest key of (consumer, service) that is not revoked
LatestKeys(keys, consumer, service) ==
    LET live == {k \in keys : k.consumer_id = consumer /\ k.service_id = service
                              /\ k.revoked_at = None}
    IN  {k \in live : \A o \in live : o.created_at <= k.created_at}

----------------------------------------------------------------------------
(* UsageMeter, usage_meter.rs *)

\* lines 90-152; ok = FALSE is the Err of `.context("No pricing rate found")`;
\* breakdown names the JSON object that goes with the amount
calculate_cost(pricing, total_tokens) ==
    CASE pricing.model = "per-token" ->
            IF pricing.rates = <<>>
            THEN [ok |-> FALSE, amount |-> 0, breakdown |-> "none"]
            ELSE [ok |-> TRUE, amount |-> total_tokens * pricing.rates[1],
                  breakdown |-> "rate_per_token"]
      [] pricing.model = "per-request" ->
            IF pricing.rates = <<>>
            THEN [ok |-> FALSE, amount |-> 0, breakdown |-> "none"]
            ELSE [ok |-> TRUE, amount |-> pricing.rates[1],
                  breakdown |-> "rate_per_request"]
      [] pricing.model = "subscription" ->
            [ok |-> TRUE, amount |-> 0, breakdown |-> "subscription"]
      [] OTHER -> [ok |-> TRUE, amount |-> 0, breakdown |-> "Unknown pricing model"]

\* an insert that is executed twice
InsertUsage_twice(records, rec) == Append(Append(records, rec), rec)

\* lines 54-75: INSERT INTO usage_records
InsertUsage(records, rec) == Append(records, rec)

----------------------------------------------------------------------------
(* The Consume pipeline: auth middleware and the two handlers *)

Requests == RLTasks
TokenChoices == {1, 250}               \* usage.total_tokens upstream may report
MAX_RETRIES == 3
ChannelCapacity == 10000

NoReq == [pc |-> "idle", handler |-> "basic", svc |-> "s1", consumer |-> "c1", tier |-> "basic", id |-> 0,
          attempt |-> 0, tokens |-> 0, secs |-> 0, resp |-> 0, trace |-> <<>>,
          passed |-> {}, called |-> FALSE, routed |-> FALSE, rec |-> "none",
          violations |-> 0,
          qs |-> [used_tokens |-> 0, total_tokens |-> 0, remaining_tokens |-> 0,
                  reset_at |-> 0, exceeded |-> FALSE]]

MaxViolations == 2     \* violations in one reply of the engine

\* what the POST to the policy engine comes to
PolicyReplies == {"transport", "timeout", "500", "503", "404",
                  "200_badbody", "200_allowed", "200_denied"}

\* policy_client.rs:106-157: a failed send is an Err (line 112), a non-success
\* status is answered by the fail-open response (117-133), an unreadable body
\* is an Err (138), anything else is the reply of the engine
validate_consumption(reply, violations) ==
    IF reply \in {"transport", "timeout"}
    THEN [result |-> "Err", allowed |-> FALSE, violations |-> 0, failover |-> FALSE]
    ELSE IF reply \in {"500", "503", "404"}
    THEN [result |-> "Ok", allowed |-> TRUE, violations |-> 0, failover |-> TRUE]
    ELSE IF reply = "200_badbody"
    THEN [result |-> "Err", allowed |-> FALSE, violations |-> 0, failover |-> FALSE]
    ELSE [result |-> "Ok", allowed |-> reply = "200_allowed",
          violations |-> violations, failover |-> FALSE]

\* request-router dispatch is over when the last attempt failed
Exhausted(attempt) == attempt >= MAX_RETRIES

\* a send that loses every event
Send_lost(ch, ev) == ch

\* analytics_streamer.rs:98-112: try_send drops the event when the channel is full
Send(ch, ev) == IF Len(ch) < ChannelCapacity THEN Append(ch, ev) ELSE ch

----------------------------------------------------------------------------
(* State of the components that are specified on their own: the key        *)
(* manager, the request router and the circuit breaker                      *)

CbTasks == {1, 2}

\* no dispatch was started yet
NoRoute == [pc |-> "idle", attempt |-> 0, calls |-> <<>>, sleeps |-> <<>>,
            result |-> "none", n |-> 0, failed |-> 0]

\* no AnalyticsStreamer was constructed yet
NoStreamer == [pc |-> "none", capacity |-> 0, chan |-> <<>>, batch |-> <<>>,
               timer |-> 0, closed |-> FALSE]

\* no policy validation was made yet
NoPolicy == [pc |-> "idle", reply |-> "none", violations |-> 0,
             result |-> "none", allowed |-> FALSE, failover |-> FALSE,
             reported |-> 0, next |-> "none", n |-> 0]

AuxInit ==
    \* calculate_cost was not called yet
    /\ costCall = [pc |-> "idle", pricing |-> [model |-> "none", rates |-> <<>>],
                   total_tokens |-> 0,
                   out |-> [ok |-> FALSE, amount |-> 0, breakdown |-> "none"],
                   again |-> [ok |-> FALSE, amount |-> 0, breakdown |-> "none"]]
    \* no SLAMonitor call was made yet
    /\ slaMon = [call |-> "none", total |-> 0, errors |-> 0, availability |-> 0,
                 latency |-> 0, status |-> "none", result |-> "none",
                 uptime |-> <<0, 1>>, latency_compliant |-> FALSE,
                 error_rate_compliant |-> FALSE, uptime_compliant |-> FALSE,
                 overall_compliant |-> FALSE,
                 spawned |-> 0, recorded |-> 0, n |-> 0]
    \* with_retry was not called yet
    /\ retry = [pc |-> "idle", max_retries |-> 0, attempt |-> 0,
                last_error |-> FALSE, timeouts |-> 0, result |-> "none", n |-> 0]
    /\ extract = [called |-> FALSE, usage |-> "none", text_len |-> 0, result |-> "none"]
    /\ durable = [p \in Pairs |-> None]
    \* no persist_quotas run was started and main has not run yet
    /\ job = [pc |-> "idle", keys |-> <<>>, key |-> <<"c1", "s1">>,
              used_tokens |-> 0, seen |-> 0, result |-> "none", runs |-> 0,
              writes |-> 0, main |-> "boot", sla |-> 0]
    /\ policy = NoPolicy
    /\ streamer = NoStreamer
    \* bookkeeping: what the most recent send returned and whether it dropped
    \* its event, what caused the most recent flush, and the seconds the
    \* oldest event of the batch has spent in it
    /\ anHist = [sent |-> "none", dropped |-> FALSE, flush |-> "none", age |-> 0,
                 seq |-> 0, next |-> 0, ordered |-> TRUE, hub |-> "none"]
    \* no ApiKeyManager call was made yet
    /\ keyLast = [op |-> "none", plain |-> 0, id |-> 0, consumer |-> "c1",
                  ok |-> FALSE, err |-> "none", now |-> 0, found |-> FALSE,
                    svc |-> "s1", applied |-> 0, tier |-> "basic"]
    /\ keySeq = 0
    /\ router = NoRoute
    \* retry.rs:178-187, CircuitBreaker::new
    /\ breaker = [state |-> "Closed", failures |-> 0, successes |-> 0,
                  last_failure_time |-> 0]
    /\ cbTask = [t \in CbTasks |-> [pc |-> "idle"]]
    /\ cbNow = 0
    \* bookkeeping: what the most recent execute of each task came to, the
    \* number of failures recorded since the last recorded success, the number
    \* of clock advances so far, the number of times the breaker has entered
    \* HalfOpen, and the number of successes recorded in HalfOpen since it was
    \* last entered
    /\ cbHist = [consec |-> 0, ticks |-> 0, episode |-> 0, hsucc |-> 0,
                 last |-> [t \in CbTasks |->
                              [outcome |-> "none", retry_after |-> 0, at |-> 0]]]

----------------------------------------------------------------------------
(* Specification of the rate limiter alone *)

InitRL ==
    /\ clock = StartClock
    /\ ticks = 0
    /\ bucket = [p \in Pairs |-> NoBucket]
    /\ rlpc = [t \in RLTasks |-> "idle"]
    /\ rlArg = [t \in RLTasks |-> NoArg]
    /\ tierOf \in {f \in [Pairs -> Tiers] : \A p \in Pairs \ RLPairs : f[p] = "basic"}
    /\ rlChecks = 0
    /\ allowedAt = [p \in Pairs |-> <<>>]
    /\ rlLast = [p \in Pairs |-> NoLast]
    /\ ledger = [p \in Pairs |-> NoLedger]
    /\ quota = [p \in Pairs |-> NoQuota]
    /\ apiKeys = {}
    /\ svcTable = [s \in Services |-> [pricing |-> [model |-> "subscription", rates |-> <<>>]]]
    /\ req = [r \in Requests |-> NoReq]
    /\ usageRecords = <<>>
    /\ servedSum = [p \in Pairs |-> 0]
    /\ nextId = 1
    /\ events = <<>>
    /\ slaViolations = 0
    /\ AuxInit

Pending == Cardinality({u \in RLTasks : rlpc[u] = "invoke"})

CheckBegin ==
    /\ rlChecks + Pending < MaxChecks
    /\ \E t \in RLTasks, p \in RLPairs :
        RlReadNow(t, p, tierOf[p]) /\ UNCHANGED timeVars /\ UNCHANGED auxVars /\ UNCHANGED pipeVars

CheckScript ==
    \E t \in RLTasks :
        RlInvoke(t) /\ RlObserve(t) /\ UNCHANGED timeVars /\ UNCHANGED auxVars /\ UNCHANGED pipeVars

TickRL ==
    /\ ticks < MaxTicks
    /\ \E d \in {1} :
        /\ clock' = clock + d
        /\ bucket' = ExpireBuckets(bucket, clock + d)
    /\ ticks' = ticks + 1
    /\ UNCHANGED <<rlpc, rlArg, tierOf, rlChecks, allowedAt, rlLast, ledger>>
    /\ UNCHANGED auxVars
    /\ UNCHANGED pipeVars

NextRL == CheckBegin \/ CheckScript \/ TickRL

SpecRL == InitRL /\ [][NextRL]_vars

----------------------------------------------------------------------------
\* every component specified on its own starts with the basic tier and with
\* nothing called yet
InitIdle == InitRL /\ tierOf = [p \in Pairs |-> "basic"]

\* the hash of a key as another writer of the cache may have left it: tokens
\* or last_update absent or not a number (None), or a bucket of 0 tokens
\* written now, 1 s or 3600 s before the end of its TTL
CorruptBucket ==
    /\ \E p \in RLPairs :
        /\ ~bucket[p].present /\ rlLast[p].n = 0
        /\ \E tokens \in {None, 0}, last_update \in {None, clock},
              exp \in {clock + 1, clock + BucketTTL} :
            bucket' = [bucket EXCEPT ![p] =
                          [present |-> TRUE, tokens |-> tokens,
                           last_update |-> last_update, exp |-> exp]]
    /\ UNCHANGED <<rlpc, rlArg, tierOf, rlChecks, allowedAt, rlLast, ledger>>
    /\ UNCHANGED timeVars /\ UNCHANGED auxVars /\ UNCHANGED pipeVars

NextHeal == CorruptBucket \/ CheckBegin \/ CheckScript \/ TickRL

SpecHeal == InitRL /\ [][NextHeal]_vars

----------------------------------------------------------------------------
(* A burst: Checks issued back to back while the clock stands still *)

BurstBegin ==
    /\ rlChecks + Pending < MaxBurst
    /\ \E t \in RLTasks, p \in RLPairs :
        RlReadNow(t, p, tierOf[p]) /\ UNCHANGED timeVars /\ UNCHANGED auxVars /\ UNCHANGED pipeVars

BurstScript ==
    \E t \in RLTasks :
        RlInvoke(t) /\ RlObserve(t) /\ UNCHANGED timeVars /\ UNCHANGED auxVars /\ UNCHANGED pipeVars

NextBurst == BurstBegin \/ BurstScript

SpecBurst == InitRL /\ [][NextBurst]_vars

----------------------------------------------------------------------------
(* Steps of one Consume.  Every await of the handlers is a step of its own. *)

PipeTicks == 1         \* clock advances per behaviour of the pipeline

KeyOf(r) == <<req[r].consumer, req[r].svc>>
Reject(rec, status) == [rec EXCEPT !.pc = "done", !.resp = status]
Ran(rec, stage) == [rec EXCEPT !.trace = Append(@, stage)]
Pass(rec, stage) == [rec EXCEPT !.passed = @ \cup {stage}]
\* consumption_enhanced.rs:254-280 follow the quota update, consumption.rs:189-205 answers
AfterUpdate(rec) ==
    [rec EXCEPT !.pc = IF rec.handler = "enhanced" THEN "sla" ELSE "respond"]

\* a request arrives; h is the handler the route is bound to (main.rs:140-143
\* binds consume_service, "basic"; consume_service_enhanced is "enhanced")
Start ==
    \E r \in Requests :
        /\ req[r].pc = "idle"
        /\ \A o \in Requests : o < r => req[o].pc # "idle"
        /\ \E h \in {"basic", "enhanced"} :
            req' = [req EXCEPT ![r] = [NoReq EXCEPT !.pc = "auth", !.handler = h]]
        /\ UNCHANGED <<quota, apiKeys, svcTable, usageRecords, servedSum, nextId,
                       events, slaViolations>>
        /\ UNCHANGED rlVars /\ UNCHANGED timeVars /\ UNCHANGED auxVars

\* middleware/auth.rs:13-59; cred is the Authorization header of the request
AuthStep ==
    \E r \in Requests :
        /\ req[r].pc = "auth"
        /\ \E cred \in {"none", "bogus", "pA", "pB"} :
           LET rec == Ran(req[r], "auth") IN
           IF cred = "none"
           THEN req' = [req EXCEPT ![r] = Reject(rec, 401)]
           ELSE \E salt \in Salts, dbok \in BOOLEAN :
                LET rows == KeysByHash(apiKeys, hash_key(cred, salt)) IN
                IF ~dbok \/ rows = {}
                THEN req' = [req EXCEPT ![r] = Reject(rec, 401)]
                ELSE \E k \in rows :
                     IF ~is_valid(k, clock)
                     THEN req' = [req EXCEPT ![r] = Reject(rec, 401)]
                     ELSE req' = [req EXCEPT ![r] =
                              [Pass(rec, "auth") EXCEPT !.pc = "service",
                                                        !.consumer = k.consumer_id]]
        /\ UNCHANGED <<quota, apiKeys, svcTable, usageRecords, servedSum, nextId,
                       events, slaViolations>>
        /\ UNCHANGED rlVars /\ UNCHANGED timeVars /\ UNCHANGED auxVars

\* consumption.rs:24-55, consumption_enhanced.rs:32-52; target is the serviceId
\* of the path and valid the outcome of request.validate()
ServiceStep ==
    \E r \in Requests :
        /\ req[r].pc = "service"
        /\ \E target \in {"s1", "s2", "s9"},   \* s9 is not in table services
               valid \in BOOLEAN :
           LET rec == [req[r] EXCEPT !.svc = target] IN
           IF rec.handler = "basic" /\ ~valid
           THEN req' = [req EXCEPT ![r] = Reject(rec, 400)]
           ELSE \E dbok \in BOOLEAN :
                IF ~dbok THEN req' = [req EXCEPT ![r] = Reject(rec, 500)]
                ELSE IF target \notin DOMAIN svcTable
                THEN req' = [req EXCEPT ![r] = Reject(rec, 404)]
                ELSE req' = [req EXCEPT ![r] = [rec EXCEPT !.pc = "apikey"]]
        /\ UNCHANGED <<quota, apiKeys, svcTable, usageRecords, servedSum, nextId,
                       events, slaViolations>>
        /\ UNCHANGED rlVars /\ UNCHANGED timeVars /\ UNCHANGED auxVars

\* consumption.rs:57-85, consumption_enhanced.rs:54-81
ApiKeyStep ==
    \E r \in Requests :
        /\ req[r].pc = "apikey"
        /\ LET rec == req[r]
               rows == LatestKeys(apiKeys, rec.consumer, rec.svc) IN
           \E dbok \in BOOLEAN :
                IF ~dbok THEN req' = [req EXCEPT ![r] = Reject(rec, 500)]
                ELSE IF rows = {} THEN req' = [req EXCEPT ![r] = Reject(rec, 403)]
                ELSE \E k \in rows :
                     req' = [req EXCEPT ![r] =
                         [rec EXCEPT !.tier = get_tier(k),
                                     !.pc = IF rec.handler = "enhanced" THEN "policy"
                                            ELSE "ratelimit"]]
        /\ UNCHANGED <<quota, apiKeys, svcTable, usageRecords, servedSum, nextId,
                       events, slaViolations>>
        /\ UNCHANGED rlVars /\ UNCHANGED timeVars /\ UNCHANGED auxVars

RECURSIVE SendN(_, _, _)
SendN(ch, ev, n) == IF n = 0 THEN ch ELSE SendN(Send(ch, ev), ev, n - 1)

\* consumption_enhanced.rs:83-127 with policy_client.rs:106-157
PolicyStep ==
    \E r \in Requests :
        /\ req[r].pc = "policy"
        /\ LET rec == Ran(req[r], "policy") IN
           \E reply \in PolicyReplies, violations \in 0..MaxViolations :
             LET v == validate_consumption(reply, violations) IN
             CASE v.result = "Err" ->
                    /\ req' = [req EXCEPT ![r] = Reject(rec, 500)]
                    /\ UNCHANGED events
               [] v.result = "Ok" /\ ~v.allowed ->
                    /\ events' = SendN(events, "PolicyViolation", v.violations)
                    /\ req' = [req EXCEPT ![r] =
                           Reject([rec EXCEPT !.violations = v.violations], 403)]
               [] OTHER ->
                    /\ req' = [req EXCEPT ![r] =
                           [Pass(rec, "policy") EXCEPT !.pc = "ratelimit"]]
                    /\ UNCHANGED events
        /\ UNCHANGED <<quota, apiKeys, svcTable, usageRecords, servedSum, nextId,
                       slaViolations>>
        /\ UNCHANGED rlVars /\ UNCHANGED timeVars /\ UNCHANGED auxVars

\* rate_limiter.rs:31-76 called from consumption.rs:88-91
RateLimitRead ==
    \E r \in Requests :
        /\ req[r].pc = "ratelimit"
        /\ RlReadNow(r, KeyOf(r), req[r].tier)
        /\ req' = [req EXCEPT ![r] = [Ran(req[r], "ratelimit") EXCEPT !.pc = "rl_invoke"]]
        /\ UNCHANGED <<quota, apiKeys, svcTable, usageRecords, servedSum, nextId,
                       events, slaViolations>>
        /\ UNCHANGED timeVars /\ UNCHANGED auxVars

\* rate_limiter.rs:78-108 and consumption.rs:92-108, consumption_enhanced.rs:134-162
RateLimitScript ==
    \E r \in Requests :
        /\ req[r].pc = "rl_invoke"
        /\ \/ /\ rlpc' = [rlpc EXCEPT ![r] = "idle"]
              /\ rlArg' = [rlArg EXCEPT ![r] = NoArg]
              /\ UNCHANGED <<bucket, tierOf, rlChecks, allowedAt, rlLast, ledger>>
              /\ req' = [req EXCEPT ![r] = Reject(req[r], 500)]
              /\ UNCHANGED events
           \/ /\ RlInvoke(r)
              /\ UNCHANGED <<allowedAt, rlLast, ledger>>
              /\ LET status == RateLimitStatus(ScriptOut(r))
                     rec == IF status.exceeded THEN req[r] ELSE Pass(req[r], "ratelimit") IN
                 IF status.exceeded
                 THEN /\ req' = [req EXCEPT ![r] = Reject(rec, 429)]
                      /\ events' = IF rec.handler = "enhanced"
                                   THEN Send(events, "RateLimitExceeded") ELSE events
                 ELSE /\ req' = [req EXCEPT ![r] = [rec EXCEPT !.pc = "quota"]]
                      /\ UNCHANGED events
        /\ UNCHANGED <<quota, apiKeys, svcTable, usageRecords, servedSum, nextId,
                       slaViolations>>
        /\ UNCHANGED timeVars /\ UNCHANGED auxVars

\* quota_manager.rs:27-68 and consumption.rs:110-134, consumption_enhanced.rs:164-201
QuotaStep ==
    \E r \in Requests :
        /\ req[r].pc = "quota"
        /\ LET rec0 == Ran(req[r], "quota")
               p == KeyOf(r) IN
           \E redisok \in BOOLEAN :
             IF ~redisok
             THEN /\ req' = [req EXCEPT ![r] = Reject(rec0, 500)]
                  /\ UNCHANGED <<quota, events, nextId>>
             ELSE LET status == check_quota(quota[p], rec0.tier, clock)
                      rec1 == [rec0 EXCEPT !.qs = status]
                      rec == IF status.exceeded THEN rec1 ELSE Pass(rec1, "quota") IN
                  /\ quota' = [quota EXCEPT ![p] = RedisGet(@)]
                  /\ IF status.exceeded
                     THEN /\ req' = [req EXCEPT ![r] = Reject(rec, 402)]
                          /\ events' = IF rec.handler = "enhanced"
                                       THEN Send(events, "QuotaExceeded") ELSE events
                          /\ UNCHANGED nextId
                     ELSE /\ req' = [req EXCEPT ![r] =
                                 [rec EXCEPT !.pc = "dispatch", !.id = nextId,
                                             !.attempt = 1]]
                          /\ nextId' = nextId + 1
                          /\ UNCHANGED events
        /\ UNCHANGED <<apiKeys, svcTable, usageRecords, servedSum, slaViolations>>
        /\ UNCHANGED rlVars /\ UNCHANGED timeVars /\ UNCHANGED auxVars

\* request_router.rs:109-149 (one attempt per step) and consumption.rs:135-157
DispatchStep ==
    \E r \in Requests :
        /\ req[r].pc = "dispatch"
        /\ LET rec0 == IF req[r].attempt = 1 THEN Ran(req[r], "dispatch") ELSE req[r]
               rec == [rec0 EXCEPT !.called = TRUE, !.qs = NoReq.qs] IN
           \/ \E tok \in TokenChoices :
                LET cost == calculate_cost(svcTable[rec.svc].pricing, tok)
                    got == [Pass(rec, "dispatch") EXCEPT !.routed = TRUE, !.tokens = tok,
                                                         !.attempt = 0] IN
                IF cost.ok
                THEN req' = [req EXCEPT ![r] = [got EXCEPT !.pc = "record"]]
                ELSE req' = [req EXCEPT ![r] = Reject(got, 500)]
           \/ IF Exhausted(rec.attempt)
              THEN req' = [req EXCEPT ![r] = Reject([rec EXCEPT !.attempt = 0], 502)]
              ELSE req' = [req EXCEPT ![r] = [rec EXCEPT !.attempt = @ + 1]]
        /\ UNCHANGED <<quota, apiKeys, svcTable, usageRecords, servedSum, nextId,
                       events, slaViolations>>
        /\ UNCHANGED rlVars /\ UNCHANGED timeVars /\ UNCHANGED auxVars

\* usage_meter.rs:24-87 called from consumption.rs:159-176
RecordStep ==
    \E r \in Requests :
        /\ req[r].pc = "record"
        /\ \E dbok \in BOOLEAN :
             IF dbok
             THEN /\ usageRecords' = InsertUsage(usageRecords,
                        [request_id |-> req[r].id, service_id |-> req[r].svc,
                         consumer_id |-> req[r].consumer, total_tokens |-> req[r].tokens,
                         status |-> "success"])
                  /\ req' = [req EXCEPT ![r].pc = "uq_incr", ![r].rec = "ok"]
             ELSE /\ UNCHANGED usageRecords
                  /\ req' = [req EXCEPT ![r].pc = "uq_incr", ![r].rec = "failed"]
        /\ UNCHANGED <<quota, apiKeys, svcTable, servedSum, nextId, events, slaViolations>>
        /\ UNCHANGED rlVars /\ UNCHANGED timeVars /\ UNCHANGED auxVars

\* quota_manager.rs:77-85 called from consumption.rs:178-187
UpdateIncr ==
    \E r \in Requests :
        /\ req[r].pc = "uq_incr"
        /\ \E redisok \in BOOLEAN :
             IF redisok
             THEN /\ quota' = [quota EXCEPT ![KeyOf(r)] = RedisIncr(@, req[r].tokens)]
                  /\ req' = [req EXCEPT ![r].pc = "uq_ttl"]
             ELSE /\ UNCHANGED quota
                  /\ req' = [req EXCEPT ![r] = AfterUpdate(req[r])]
        /\ UNCHANGED <<apiKeys, svcTable, usageRecords, servedSum, nextId, events,
                       slaViolations>>
        /\ UNCHANGED rlVars /\ UNCHANGED timeVars /\ UNCHANGED auxVars

\* quota_manager.rs:88-95
UpdateTtl ==
    \E r \in Requests :
        /\ req[r].pc = "uq_ttl"
        /\ \E redisok \in BOOLEAN :
             IF redisok /\ RedisTtl(quota[KeyOf(r)], clock) = -1
             THEN req' = [req EXCEPT ![r].pc = "uq_expire",
                                     ![r].secs = get_quota_reset_time(clock) - clock]
             ELSE req' = [req EXCEPT ![r] = AfterUpdate(req[r])]
        /\ UNCHANGED <<quota, apiKeys, svcTable, usageRecords, servedSum, nextId,
                       events, slaViolations>>
        /\ UNCHANGED rlVars /\ UNCHANGED timeVars /\ UNCHANGED auxVars

\* quota_manager.rs:96-108
UpdateExpire ==
    \E r \in Requests :
        /\ req[r].pc = "uq_expire"
        /\ \E redisok \in BOOLEAN :
             /\ quota' = IF redisok
                         THEN [quota EXCEPT ![KeyOf(r)] = RedisExpire(@, req[r].secs, clock)]
                         ELSE quota
             /\ req' = [req EXCEPT ![r] = [AfterUpdate(req[r]) EXCEPT !.secs = 0]]
        /\ UNCHANGED <<apiKeys, svcTable, usageRecords, servedSum, nextId, events,
                       slaViolations>>
        /\ UNCHANGED rlVars /\ UNCHANGED timeVars /\ UNCHANGED auxVars

\* sla_monitor.rs:23-58 called from consumption_enhanced.rs:254-262
SlaStep ==
    \E r \in Requests :
        /\ req[r].pc = "sla"
        /\ \E slow \in BOOLEAN, dbok \in BOOLEAN :
             slaViolations' = IF slow /\ dbok THEN slaViolations + 1 ELSE slaViolations
        /\ req' = [req EXCEPT ![r].pc = "analytics"]
        /\ UNCHANGED <<quota, apiKeys, svcTable, usageRecords, servedSum, nextId, events>>
        /\ UNCHANGED rlVars /\ UNCHANGED timeVars /\ UNCHANGED auxVars

\* analytics_streamer.rs:115-137 called from consumption_enhanced.rs:264-280
AnalyticsStep ==
    \E r \in Requests :
        /\ req[r].pc = "analytics"
        /\ events' = Send(events, "ConsumptionRequest")
        /\ req' = [req EXCEPT ![r].pc = "respond"]
        /\ UNCHANGED <<quota, apiKeys, svcTable, usageRecords, servedSum, nextId,
                       slaViolations>>
        /\ UNCHANGED rlVars /\ UNCHANGED timeVars /\ UNCHANGED auxVars

\* consumption.rs:199-205, consumption_enhanced.rs:292-298
Respond ==
    \E r \in Requests :
        /\ req[r].pc = "respond"
        /\ req' = [req EXCEPT ![r] = Reject(req[r], 200)]
        /\ servedSum' = [servedSum EXCEPT ![KeyOf(r)] = @ + req[r].tokens]
        /\ UNCHANGED <<quota, apiKeys, svcTable, usageRecords, nextId, events,
                       slaViolations>>
        /\ UNCHANGED rlVars /\ UNCHANGED timeVars /\ UNCHANGED auxVars

----------------------------------------------------------------------------
(* Specification of the pipeline: Requests concurrent Consumes *)

InitPipe ==
    /\ clock = StartClock
    /\ ticks = 0
    /\ rlpc = [t \in RLTasks |-> "idle"]
    /\ rlArg = [t \in RLTasks |-> NoArg]
    /\ rlChecks = 0
    /\ allowedAt = [p \in Pairs |-> <<>>]
    /\ rlLast = [p \in Pairs |-> NoLast]
    /\ ledger = [p \in Pairs |-> NoLedger]
    /\ \E tier \in {"basic"} :
        /\ tierOf = [p \in Pairs |-> tier]
        \* the key table: a live key of c1 for s1 and a revoked one
        /\ apiKeys =
              {[id |-> "kA", key_hash |-> hash_key("pA", 1), consumer_id |-> "c1",
                service_id |-> "s1", tier |-> tier, created_at |-> 1,
                expires_at |-> None, revoked_at |-> None],
               [id |-> "kB", key_hash |-> hash_key("pB", 1), consumer_id |-> "c1",
                service_id |-> "s1", tier |-> "premium", created_at |-> 2,
                expires_at |-> None, revoked_at |-> 3]}
        /\ \E used \in {None, quota_limit(tier) - 1} :
            /\ quota = [p \in Pairs |->
                  IF p \in RLPairs /\ used # None
                  THEN [present |-> TRUE, val |-> used,
                        exp |-> get_quota_reset_time(StartClock)]
                  ELSE NoQuota]
            /\ servedSum = [p \in Pairs |->
                  IF p \in RLPairs /\ used # None THEN used ELSE 0]
    /\ bucket \in {[p \in Pairs |-> NoBucket],
                   \* the bucket after a burst of `capacity` Checks at StartClock
                   [p \in Pairs |->
                       IF p \in RLPairs
                       THEN [present |-> TRUE, tokens |-> 0,
                             last_update |-> StartClock,
                             exp |-> StartClock + BucketTTL]
                       ELSE NoBucket]}
    /\ \E pr \in {[model |-> "per-token", rates |-> <<1>>],
                  [model |-> "per-token", rates |-> <<>>]} :
        svcTable = [s \in Services |-> [pricing |-> pr]]
    /\ req = [r \in Requests |-> NoReq]
    /\ usageRecords = <<>>
    /\ nextId = 1
    /\ events = <<>>
    /\ slaViolations = 0
    /\ AuxInit


TickPipe ==
    /\ ticks < PipeTicks
    /\ clock' = clock + 1
    /\ ticks' = ticks + 1
    /\ bucket' = ExpireBuckets(bucket, clock + 1)
    /\ quota' = ExpireQuotas(quota, clock + 1)
    /\ servedSum' = IF MonthOf(clock + 1) # MonthOf(clock)
                    THEN [p \in Pairs |-> 0] ELSE servedSum
    /\ UNCHANGED <<rlpc, rlArg, tierOf, rlChecks, allowedAt, rlLast, ledger>>
    /\ UNCHANGED auxVars
    /\ UNCHANGED <<apiKeys, svcTable, req, usageRecords, nextId, events, slaViolations>>

NextPipe ==
    \/ Start \/ AuthStep \/ ServiceStep \/ ApiKeyStep \/ PolicyStep
    \/ RateLimitRead \/ RateLimitScript \/ QuotaStep \/ DispatchStep
    \/ RecordStep \/ UpdateIncr \/ UpdateTtl \/ UpdateExpire
    \/ SlaStep \/ AnalyticsStep \/ Respond \/ TickPipe

SpecPipe == InitPipe /\ [][NextPipe]_vars

----------------------------------------------------------------------------
(* Properties of the rate limiter *)

RECURSIVE SumOver(_, _)
SumOver(f, S) ==
    IF S = {} THEN 0
    ELSE LET x == CHOOSE y \in S : TRUE IN f[x] + SumOver(f, S \ {x})

\* C5: in every window of T seconds the number of allowed Checks of a key is
\* at most burst_capacity + rate * T + 1.
C5_TokenBucketConservation ==
    \A p \in Pairs : \A t1, t2 \in DOMAIN allowedAt[p] :
        t1 <= t2 =>
            SumOver(allowedAt[p], {t \in DOMAIN allowedAt[p] : t1 <= t /\ t <= t2})
                <= burst_capacity(tierOf[p]) + rate_limit(tierOf[p]) * (t2 - t1) + 1

C7_ChecksSerialized ==
    \A p \in Pairs : bucket[p].present =>
        /\ bucket[p].tokens = ledger[p].base + ledger[p].granted - ledger[p].consumed
        /\ ledger[p].consumed <= ledger[p].base + ledger[p].granted

\* two Checks in flight at once, the one executed first taking the last token
C7_Witness ==
    \E p \in Pairs :
        /\ rlLast[p].overlapped
        /\ ~rlLast[p].status.exceeded
        /\ rlLast[p].refilled = 1
        /\ bucket[p].tokens = 0
        /\ \E u \in RLTasks : rlpc[u] = "invoke" /\ rlArg[u].pair = p

\* C8: of C+1 Checks issued at one instant on a fresh bucket exactly the first
\* C are allowed and the (C+1)-th is denied with retry_after = 1; for Basic
\* the first 20 are allowed and the 21st is denied with retry_after_s = 1.
C8_BurstAtOneInstant ==
    \A p \in Pairs :
        LET C == burst_capacity(tierOf[p])
            n == rlLast[p].n
        IN  /\ ledger[p].consumed = Min(n, C)
            /\ (n >= 1 /\ n <= C => ~rlLast[p].status.exceeded)
            /\ (n = C + 1 =>
                    /\ rlLast[p].status.exceeded
                    /\ rlLast[p].status.retry_after_seconds = 1
                    /\ rlLast[p].status.retry_after_seconds
                         = CeilDiv(1 - bucket[p].tokens, rate_limit(tierOf[p])))
            /\ (tierOf[p] = "basic" /\ n = 21 =>
                    /\ ledger[p].consumed = 20
                    /\ rlLast[p].status.retry_after_seconds = 1)

\* the 21st Check of a Basic burst has been denied
C8_Witness ==
    \E p \in Pairs :
        /\ tierOf[p] = "basic"
        /\ rlLast[p].n = 21
        /\ ledger[p].consumed = 20
        /\ rlLast[p].status.exceeded
        /\ rlLast[p].status.retry_after_seconds = 1

\* C33: the refill is computed from the clock of the cache, not from a time
\* the caller supplies: the last_update a script execution stores is the
\* time of the cache at that execution (the time its EXPIRE counts from), and
\* no execution computes with a time behind the stored last_update, so that
\* no elapsed interval is refilled twice.
C33_ServerSideClock ==
    \A p \in Pairs :
        bucket[p].present =>
            /\ bucket[p].last_update = bucket[p].exp - BucketTTL
            /\ rlLast[p].n > 0 => rlLast[p].pre_last <= rlLast[p].now

\* C34: a Check that finds no bucket, or a stored bucket whose tokens or
\* last_update is absent or not a number, answers normally and starts from a
\* bucket at capacity; so does a Check on a key whose bucket has expired.
C34_SelfHealing ==
    \A p \in Pairs :
        rlLast[p].n > 0 =>
            /\ ~rlLast[p].error
            /\ (rlLast[p].fresh \/ rlLast[p].corrupt) =>
                  /\ rlLast[p].pre = burst_capacity(tierOf[p])
                  /\ rlLast[p].pre_last = rlLast[p].now

----------------------------------------------------------------------------
(* Properties of the pipeline *)

\* the gating stages in the order of the handler
Rank(stage) ==
    LET StageOrder == <<"auth", "policy", "ratelimit", "quota", "dispatch">>
    IN CHOOSE i \in 1..Len(StageOrder) : StageOrder[i] = stage

\* number of rows of usage_records carrying request_id = id
RecordsOf(id) ==
    Cardinality({i \in 1..Len(usageRecords) : usageRecords[i].request_id = id})

\* C1: within one Consume the gating stages run in the order auth, policy,
\* rate-limit, quota, dispatch; a stage runs only if every earlier stage of
\* that order passed; after a rejection at a stage no later stage runs and no
\* upstream call is made.
C1_StagesInOrder ==
    \A r \in Requests :
        LET t == req[r].trace IN
        /\ \A i, j \in 1..Len(t) : i < j => Rank(t[i]) < Rank(t[j])
        /\ \A i \in 1..Len(t) : \A s \in {"auth", "policy", "ratelimit", "quota", "dispatch"} :
              Rank(s) < Rank(t[i]) => s \in req[r].passed
        /\ \A i \in 1..Len(t) :
              (req[r].pc = "done" /\ t[i] \notin req[r].passed) => i = Len(t)
        /\ req[r].called => (Len(t) > 0 /\ t[Len(t)] = "dispatch")

\* C2 as stated: a Consume answered 200 has exactly one UsageRecord with its
\* request_id, a Consume answered with a rejection has none.
C2_OneRecordPerSuccess ==
    \A r \in Requests :
        req[r].pc = "done" =>
            RecordsOf(req[r].id) = IF req[r].resp = 200 THEN 1 ELSE 0

\* C2 amended: a Consume answered 200 has at most one UsageRecord with its
\* request_id: exactly one when record_usage succeeded, none when its failure
\* was swallowed; a Consume answered with a rejection has none; only a request
\* whose dispatch succeeded ever has a record.
C2_AtMostOneRecord ==
    \A r \in Requests :
        /\ RecordsOf(req[r].id) <= 1
        /\ RecordsOf(req[r].id) = 1 => req[r].routed
        /\ req[r].pc = "done" =>
              RecordsOf(req[r].id) =
                  IF req[r].resp = 200 /\ req[r].rec = "ok" THEN 1 ELSE 0

C2_Witness ==
    \E r1, r2 \in Requests :
        /\ req[r1].pc = "done" /\ req[r1].resp = 200 /\ req[r1].rec = "ok"
        /\ RecordsOf(req[r1].id) = 1
        /\ req[r2].pc = "done" /\ req[r2].resp = 200 /\ req[r2].rec = "failed"
        /\ RecordsOf(req[r2].id) = 0

\* C3: once the upstream dispatch of a Consume has succeeded the caller gets
\* the success response, whatever the post-dispatch stages do.
C3_SuccessAfterDispatch ==
    \A r \in Requests :
        (req[r].routed /\ req[r].pc = "done") => req[r].resp = 200

\* C4: the quota counter of a pair is changed only by the expiry of its key
\* or by a step of a Consume of that pair whose upstream dispatch succeeded;
\* the quota check and every rejected Consume leave it as it is.
C4_QuotaChargedAfterDispatch ==
    [][\A p \in Pairs :
          quota'[p] # quota[p] =>
              \/ clock' # clock
              \/ \E r \in Requests :
                    /\ req'[r] # req[r]
                    /\ KeyOf(r) = p
                    /\ req[r].routed]_vars

C4_Witness ==
    \E r1, r2 \in Requests :
        /\ req[r1].pc = "done" /\ req[r1].resp = 502 /\ req[r1].called
        /\ req[r2].pc = "done" /\ req[r2].resp = 200 /\ req[r2].tokens = 250
        /\ KeyOf(r1) = KeyOf(r2)
        /\ quota[KeyOf(r2)].present /\ quota[KeyOf(r2)].val = 250

\* C9: in a month the tokens of the served requests of a pair exceed the
\* quota limit of its tier by at most the tokens of one request.
C9_QuotaOverspendBound ==
    \A p \in Pairs :
        servedSum[p] <= quota_limit(tierOf[p]) + (CHOOSE x \in TokenChoices : \A y \in TokenChoices : y <= x)

\* C10: the quota check reports exceeded exactly when used >= limit, with
\* remaining = limit - used and reset_at the first instant of the next month;
\* it answers 402 exactly when exceeded.
C10_QuotaCheckStatus ==
    [][\A r \in Requests :
          (req[r].pc = "quota" /\ req'[r].pc # "quota" /\ req'[r].resp # 500) =>
              LET q == quota[KeyOf(r)]
                  used == IF q.present THEN q.val ELSE 0
                  limit == quota_limit(req[r].tier)
                  st == req'[r].qs
              IN  /\ st.used_tokens = used
                  /\ st.total_tokens = limit
                  /\ st.remaining_tokens = limit - used
                  /\ st.exceeded = (used >= limit)
                  /\ st.reset_at = ((clock \div MonthLen) + 1) * MonthLen
                  /\ (req'[r].resp = 402) = (used >= limit)
                  /\ (req'[r].pc = "dispatch") = (used < limit)]_vars

C10_Witness ==
    \E r1, r2 \in Requests :
        /\ req[r1].pc = "done" /\ req[r1].resp = 200 /\ req[r1].tokens = 250
        /\ req[r2].pc = "done" /\ req[r2].resp = 402
        /\ req[r2].qs.used_tokens = 100249
        /\ req[r2].qs.remaining_tokens = -249
        /\ req[r2].qs.exceeded
        /\ req[r2].qs.reset_at = Ymd(StartYear + 1, 1)
        /\ quota[KeyOf(r2)].val = 100249

\* value a GET of the quota key of p returns, 0 without key (quota_manager.rs:37-40)
CounterVal(p) == IF quota[p].present THEN quota[p].val ELSE 0

\* sum of total_tokens over the rows of usage_records of pair p
RECURSIVE RecordedFrom(_, _)
RecordedFrom(p, i) ==
    IF i > Len(usageRecords) THEN 0
    ELSE (IF <<usageRecords[i].consumer_id, usageRecords[i].service_id>> = p
          THEN usageRecords[i].total_tokens ELSE 0) + RecordedFrom(p, i + 1)

\* tokens of the requests of p answered 200 in this behaviour
RECURSIVE ServedFrom(_, _)
ServedFrom(p, r) ==
    IF r \notin Requests THEN 0
    ELSE (IF req[r].pc = "done" /\ req[r].resp = 200 /\ KeyOf(r) = p
          THEN req[r].tokens ELSE 0) + ServedFrom(p, r + 1)

\* C11: without month rollover and admin reset the quota counter of a pair has
\* grown by exactly the total_tokens of the UsageRecords written for it: a
\* served request adds its tokens to both the counter and a record or to
\* neither.
C11_CounterMatchesRecords ==
    ((\A r \in Requests : req[r].pc \in {"idle", "done"}) /\ ticks = 0) =>
        \A p \in Pairs :
            CounterVal(p) - (servedSum[p] - ServedFrom(p, 1)) = RecordedFrom(p, 1)

\* C12: once an Update is over, the quota key carries a TTL that ends at the
\* first instant of the next month at the latest, so that the counter is
\* gone when the month is over.
C12_CounterExpiresAtReset ==
    \A p \in Pairs :
        (quota[p].present /\ ~(\E r \in Requests : KeyOf(r) = p /\ req[r].pc \in {"uq_ttl", "uq_expire"})) =>
            /\ quota[p].exp # None
            /\ quota[p].exp <= ((clock \div MonthLen) + 1) * MonthLen

----------------------------------------------------------------------------
(* Specification of the key manager: Generate, Validate, Revoke, api_key_manager.rs *)

MaxKeys == 2           \* keys generated per behaviour
KeyTicks == 1          \* clock advances per behaviour of the key manager
DayLen == 86400        \* seconds of Duration::days(1)

\* the other variables of the model, which the key manager does not touch
\* a revocation that also matches keys that are already revoked
RevokeMatch_any(k, id, consumer) == k.id = id /\ k.consumer_id = consumer

\* lines 120-122: WHERE id = $1 AND consumer_id = $2 AND revoked_at IS NULL
RevokeMatch(k, id, consumer) ==
    k.id = id /\ k.consumer_id = consumer /\ k.revoked_at = None

\* lines 27-86: create_api_key; the plaintext and the id are fresh, the salt
\* is drawn by hash_key
Generate ==
    /\ keySeq < MaxKeys
    \* days, service and tier are expires_in_days, service_id and tier of
    \* CreateApiKeyRequest
    /\ \E consumer \in Consumers, days \in {None, 0}, salt \in Salts,
          issue \in {[service |-> "s1", tier |-> "basic"],
                     [service |-> "s1", tier |-> "premium"],
                     [service |-> "s2", tier |-> "premium"]},
          sidok \in BOOLEAN, dbok \in BOOLEAN :
        LET n == keySeq + 1
            row == [id |-> n, key_hash |-> hash_key(n, salt),
                    consumer_id |-> consumer, service_id |-> issue.service,
                    tier |-> issue.tier, created_at |-> clock,
                    expires_at |-> IF days = None THEN None
                                   ELSE clock + days * DayLen,
                    revoked_at |-> None]
            res == [op |-> "generate", plain |-> n, id |-> n,
                    consumer |-> consumer, ok |-> sidok /\ dbok,
                    err |-> IF ~sidok THEN "invalid_service_id"
                            ELSE IF ~dbok THEN "db" ELSE "none",
                    now |-> clock, found |-> FALSE,
                    svc |-> "s1", applied |-> 0, tier |-> "basic"]
        IN  /\ keySeq' = n
            /\ apiKeys' = IF sidok /\ dbok THEN apiKeys \cup {row} ELSE apiKeys
            /\ keyLast' = res
    /\ UNCHANGED timeVars /\ Frame("keys")

\* lines 89-113: validate_key hashes the candidate and looks the hash up
Validate ==
    \* 0 is a plaintext that no key was generated with
    /\ \E plain \in 0..MaxKeys, salt \in Salts, dbok \in BOOLEAN :
        LET rows == KeysByHash(apiKeys, hash_key(plain, salt))
            res == [op |-> "validate", plain |-> plain, id |-> 0,
                    consumer |-> "c1", ok |-> FALSE, err |-> "none",
                    now |-> clock, found |-> FALSE,
                    svc |-> "s1", applied |-> 0, tier |-> "basic"]
        IN  IF ~dbok THEN keyLast' = [res EXCEPT !.err = "db"]
            ELSE IF rows = {} THEN keyLast' = [res EXCEPT !.err = "invalid"]
            ELSE \E k \in rows :
                    keyLast' =
                        IF is_valid(k, clock)
                        THEN [res EXCEPT !.ok = TRUE, !.id = k.id, !.found = TRUE,
                                         !.consumer = k.consumer_id]
                        ELSE [res EXCEPT !.err = "expired_or_revoked", !.id = k.id,
                                         !.found = TRUE, !.consumer = k.consumer_id]
    /\ UNCHANGED <<apiKeys, keySeq>>
    /\ UNCHANGED timeVars /\ Frame("keys")

\* lines 116-141: revoke_key
Revoke ==
    /\ \E id \in 1..MaxKeys, consumer \in {"c1", "c2"}, dbok \in BOOLEAN :
        LET matched == {k \in apiKeys : RevokeMatch(k, id, consumer)}
            res == [op |-> "revoke", plain |-> 0, id |-> id, consumer |-> consumer,
                    ok |-> FALSE, err |-> "none", now |-> clock, found |-> FALSE,
                    svc |-> "s1", applied |-> 0, tier |-> "basic"]
        IN  IF ~dbok
            THEN /\ keyLast' = [res EXCEPT !.err = "db"]
                 /\ UNCHANGED apiKeys
            ELSE IF matched = {}
            THEN /\ keyLast' = [res EXCEPT !.err = "not_found_or_revoked"]
                 /\ UNCHANGED apiKeys
            ELSE /\ keyLast' = [res EXCEPT !.ok = TRUE, !.found = TRUE]
                 /\ apiKeys' = (apiKeys \ matched) \cup
                                {[k EXCEPT !.revoked_at = clock] : k \in matched}
    /\ UNCHANGED keySeq
    /\ UNCHANGED timeVars /\ Frame("keys")

\* middleware/auth.rs:39-58 and consumption.rs:57-87: a Consume of service
\* target presents a key.  The middleware validates the key and hands only
\* its consumer_id to the handler; the handler selects the latest key of that
\* consumer and the service that is not revoked and takes its tier.  id is
\* the key presented, applied the key the tier is taken from.
KeyConsume ==
    /\ \E plain \in 1..MaxKeys, salt \in Salts, target \in Services :
        LET rows == KeysByHash(apiKeys, hash_key(plain, salt))
            res == [op |-> "consume", plain |-> plain, id |-> 0,
                    consumer |-> "c1", ok |-> FALSE, err |-> "401",
                    now |-> clock, found |-> FALSE,
                    svc |-> target, applied |-> 0, tier |-> "basic"]
        IN  IF rows = {} THEN keyLast' = res
            ELSE \E k \in rows :
                 IF ~is_valid(k, clock)
                 THEN keyLast' = [res EXCEPT !.id = k.id, !.found = TRUE]
                 ELSE LET latest == LatestKeys(apiKeys, k.consumer_id, target) IN
                      IF latest = {}
                      THEN keyLast' = [res EXCEPT !.id = k.id, !.found = TRUE,
                                                  !.err = "403"]
                      ELSE \E l \in latest :
                           keyLast' = [res EXCEPT !.id = k.id, !.found = TRUE,
                                                  !.consumer = k.consumer_id,
                                                  !.ok = TRUE, !.err = "none",
                                                  !.applied = l.id,
                                                  !.tier = get_tier(l)]
    /\ UNCHANGED <<apiKeys, keySeq>>
    /\ UNCHANGED timeVars /\ Frame("keys")

TickKeys ==
    /\ ticks < KeyTicks
    /\ clock' = clock + 1
    /\ ticks' = ticks + 1
    /\ UNCHANGED <<apiKeys, keyLast, keySeq>>
    /\ Frame("keys")

NextKeys == Generate \/ Validate \/ Revoke \/ KeyConsume \/ TickKeys

SpecKeys == InitIdle /\ [][NextKeys]_vars

----------------------------------------------------------------------------
(* Properties of the key manager *)

\* the validity of a key as the specification of the gateway defines it
Authorizes(k, now) ==
    k.revoked_at = None /\ (k.expires_at = None \/ k.expires_at > now)

\* the rows whose key was generated with this plaintext
KnownAs(plain) == {k \in apiKeys : k.key_hash[1] = plain}

\* C13: a key authorizes a request iff revoked_at is unset and expires_at is
\* unset or later than now; at now = expires_at the key is no longer valid.
C13_ValidIffAuthorizes ==
    (keyLast.op = "validate" /\ keyLast.found) =>
        \A k \in apiKeys :
            k.id = keyLast.id => (keyLast.ok <=> Authorizes(k, keyLast.now))

\* C14: Validate of the plaintext of a generated key that is neither revoked
\* nor expired succeeds and returns that key's record; Validate of the
\* plaintext of a revoked key fails.
C14_ValidateAfterGenerate ==
    (keyLast.op = "validate" /\ keyLast.err # "db") =>
        \A k \in KnownAs(keyLast.plain) :
            IF k.revoked_at # None THEN ~keyLast.ok
            ELSE Authorizes(k, keyLast.now) => (keyLast.ok /\ keyLast.id = k.id)

\* C15: Revoke sets revoked_at iff the key exists, is owned by the consumer
\* and is not yet revoked; otherwise it fails and changes nothing; a set
\* revoked_at is never cleared or changed, a second Revoke fails.
C15_RevokeTerminal ==
    [][/\ \A k \in apiKeys : k.revoked_at # None => k \in apiKeys'
       /\ (keyLast' # keyLast /\ keyLast'.op = "revoke") =>
            LET target == {k \in apiKeys : /\ k.id = keyLast'.id
                                           /\ k.consumer_id = keyLast'.consumer
                                           /\ k.revoked_at = None}
            IN  /\ keyLast'.ok => target # {}
                /\ (target # {} /\ keyLast'.err # "db") => keyLast'.ok
                /\ keyLast'.ok =>
                      apiKeys' = (apiKeys \ target) \cup
                                 {[k EXCEPT !.revoked_at = clock] : k \in target}
                /\ ~keyLast'.ok => apiKeys' = apiKeys]_vars

C15_Witness ==
    /\ keyLast.op = "revoke" /\ ~keyLast.ok
    /\ keyLast.err = "not_found_or_revoked"
    /\ \E k \in apiKeys :
          /\ k.id = keyLast.id /\ k.consumer_id = keyLast.consumer
          /\ k.revoked_at # None /\ k.revoked_at < keyLast.now

\* C16: Validate reports an unknown key and a known key that is expired or
\* revoked with different errors; a revoked key yields "expired or revoked".
C16_DistinctErrors ==
    (keyLast.op = "validate" /\ keyLast.err # "db") =>
        /\ KnownAs(keyLast.plain) = {} => (~keyLast.ok /\ keyLast.err = "invalid")
        /\ \A k \in KnownAs(keyLast.plain) :
              (k.revoked_at # None
                   \/ (k.expires_at # None /\ keyLast.now > k.expires_at)) =>
                  (~keyLast.ok /\ keyLast.err = "expired_or_revoked")

\* C39: a Consume that passes the key lookup was given a key of the service
\* it consumes, and the tier it applies is the tier of that key.
C39_TierOfPresentedKey ==
    (keyLast.op = "consume" /\ keyLast.ok) =>
        \E k \in apiKeys :
            /\ k.id = keyLast.id
            /\ k.service_id = keyLast.svc
            /\ keyLast.applied = k.id
            /\ keyLast.tier = get_tier(k)

----------------------------------------------------------------------------
(* Specification of one dispatch: route_with_circuit_breaker, request_router.rs *)

\* lines 33-107: route_request is Ok only for a success status with a JSON body
RouteRequest(outcome) ==
    IF outcome = "200" THEN [ok |-> TRUE, err |-> "none"]
    ELSE [ok |-> FALSE, err |-> outcome]

\* a backoff that does not grow
Delay_flat(attempt) == 100

\* line 141: Duration::from_millis(100 * 2_u64.pow(attempt - 1))
Delay(attempt) == 100 * 2 ^ (attempt - 1)

MaxRoutes == 6   \* dispatches against the service per behaviour

\* lines 109-121: the call starts with attempt 1 and no last_error, whatever
\* the earlier calls came to: the router keeps no state between calls.
\* n counts the calls, failed the calls that failed since the last success.
RouteStart ==
    /\ router.pc \in {"idle", "done"}
    /\ router.n < MaxRoutes
    /\ router' = [NoRoute EXCEPT !.pc = "attempt", !.attempt = 1,
                                !.n = router.n + 1, !.failed = router.failed]
    /\ Frame("router")

\* lines 123-147: one attempt and what the loop does with its result
RouteAttempt ==
    /\ router.pc = "attempt"
    /\ \E outcome \in {"200", "200_badbody", "transport", "timeout",
                        "400", "404", "429", "500", "503"} :
        LET res == RouteRequest(outcome)
            made == [router EXCEPT !.calls = Append(@, outcome)]
        IN  IF res.ok
            THEN router' = [made EXCEPT !.pc = "done", !.result = "ok",
                                        !.failed = 0]
            ELSE IF Exhausted(router.attempt)
            THEN router' = [made EXCEPT !.pc = "done", !.result = res.err,
                                        !.failed = @ + 1]
            ELSE router' = [made EXCEPT !.pc = "sleep", !.result = res.err]
    /\ Frame("router")

\* lines 139-143: the backoff sleep before the next attempt
RouteSleep ==
    /\ router.pc = "sleep"
    /\ router' = [router EXCEPT !.pc = "attempt",
                                !.sleeps = Append(@, Delay(router.attempt)),
                                !.attempt = @ + 1]
    /\ Frame("router")

NextRouter == RouteStart \/ RouteAttempt \/ RouteSleep

SpecRouter == InitIdle /\ [][NextRouter]_vars

----------------------------------------------------------------------------
(* Properties of the dispatch *)

\* C17: a dispatch makes at most 3 attempts, stops at the first success,
\* sleeps 100 ms after the first and 200 ms after the second failed attempt
\* and not after the last, and returns the error of the last attempt when
\* all 3 failed.
C17_RetrySchedule ==
    LET n == Len(router.calls) IN
    /\ n <= 3
    /\ \A i \in 1..n : router.calls[i] = "200" => i = n
    /\ Len(router.sleeps) <= 2
    /\ \A k \in 1..Len(router.sleeps) :
          router.sleeps[k] = (IF k = 1 THEN 100 ELSE 200)
    /\ router.pc = "attempt" => Len(router.sleeps) = n
    /\ router.pc = "sleep" => Len(router.sleeps) = n - 1
    /\ router.pc = "done" =>
          /\ n >= 1
          /\ Len(router.sleeps) = n - 1
          /\ IF router.calls[n] = "200" THEN router.result = "ok"
             ELSE n = 3 /\ router.result = router.calls[3]

C17_Witness ==
    /\ router.pc = "done"
    /\ router.calls = <<"503", "timeout", "500">>
    /\ router.sleeps = <<100, 200>>
    /\ router.result = "500"

\* C18: a response with a 4xx status other than 429 ends the dispatch after
\* that attempt; only transport errors, timeouts, 5xx and 429 are retried.
C18_TerminalClientErrors ==
    \A i \in 1..Len(router.calls) :
        router.calls[i] \in {"400", "404"} =>
            (i = 1 /\ Len(router.calls) = 1 /\ router.pc = "done")

----------------------------------------------------------------------------
(* Specification of the circuit breaker, crates/llm-infra/src/retry.rs.    *)
(* allow_request, record_success and record_failure are short sequences of *)
(* SeqCst atomic operations without an await; each is one step.  The       *)
(* protected operation runs between two steps of execute, so that calls of *)
(* several tasks overlap.                                                   *)

CbTicks == 4           \* clock advances per behaviour of the breaker

failure_threshold == 5
reset_timeout_ms == 30000
success_threshold == 3

\* a timeout test that needs more than reset_timeout_ms to have passed
TimedOut_late(now, last_failure) == now - last_failure > reset_timeout_ms

\* line 213: now - last_failure >= self.config.reset_timeout_ms
TimedOut(now, last_failure) == now - last_failure >= reset_timeout_ms

\* an allow_request that enters HalfOpen without clearing the success count
allow_request_stale(b, now) ==
    IF b.state = "Closed" THEN [allowed |-> TRUE, b |-> b]
    ELSE IF b.state = "Open"
    THEN IF TimedOut(now, b.last_failure_time)
         THEN [allowed |-> TRUE, b |-> [b EXCEPT !.state = "HalfOpen"]]
         ELSE [allowed |-> FALSE, b |-> b]
    ELSE [allowed |-> TRUE, b |-> b]

\* lines 199-224: whether the request may pass, and the breaker afterwards
allow_request(b, now) ==
    IF b.state = "Closed" THEN [allowed |-> TRUE, b |-> b]
    ELSE IF b.state = "Open"
    THEN IF TimedOut(now, b.last_failure_time)
         THEN [allowed |-> TRUE,
               b |-> [b EXCEPT !.state = "HalfOpen", !.successes = 0]]
         ELSE [allowed |-> FALSE, b |-> b]
    ELSE [allowed |-> TRUE, b |-> b]

\* a record_success that leaves the failure count alone
record_success_keep(b) ==
    IF b.state = "HalfOpen"
    THEN LET successes == b.successes + 1 IN
         [b EXCEPT !.successes = successes,
                   !.state = IF successes >= success_threshold THEN "Closed" ELSE @]
    ELSE b

\* lines 227-237
record_success(b) ==
    LET b0 == [b EXCEPT !.failures = 0] IN
    IF b0.state = "HalfOpen"
    THEN LET successes == b0.successes + 1 IN
         [b0 EXCEPT !.successes = successes,
                    !.state = IF successes >= success_threshold THEN "Closed" ELSE @]
    ELSE b0

\* lines 240-259
record_failure(b, now) ==
    LET b0 == [b EXCEPT !.last_failure_time = now] IN
    IF b0.state = "HalfOpen" THEN [b0 EXCEPT !.state = "Open"]
    ELSE LET failures == b0.failures + 1 IN
         [b0 EXCEPT !.failures = failures,
                    !.state = IF failures >= failure_threshold THEN "Open" ELSE @]

\* lines 262-273: execute asks allow_request and either rejects with
\* service_unavailable(reset_timeout_ms / 1000) or starts the operation
CbBegin ==
    \E t \in CbTasks :
        /\ cbTask[t].pc = "idle"
        /\ LET a == allow_request(breaker, cbNow) IN
           /\ breaker' = a.b
           /\ IF a.allowed
              THEN /\ cbTask' = [cbTask EXCEPT ![t].pc = "call"]
                   /\ cbHist' = [cbHist EXCEPT
                          !.episode = IF breaker.state = "Open" THEN @ + 1 ELSE @,
                          !.hsucc = IF breaker.state = "Open" THEN 0 ELSE @,
                          !.last[t] =
                          [outcome |-> "admitted", retry_after |-> 0, at |-> cbNow]]
              ELSE /\ UNCHANGED cbTask
                   /\ cbHist' = [cbHist EXCEPT !.last[t] =
                          [outcome |-> "rejected",
                           retry_after |-> reset_timeout_ms \div 1000, at |-> cbNow]]
        /\ UNCHANGED cbNow
        /\ Frame("breaker")

\* lines 275-287: the operation returns and its result is recorded
CbReturn ==
    \E t \in CbTasks :
        /\ cbTask[t].pc = "call"
        /\ \E ok \in BOOLEAN :
            /\ breaker' = IF ok THEN record_success(breaker)
                          ELSE record_failure(breaker, cbNow)
            /\ cbHist' = [cbHist EXCEPT
                  !.consec = IF ok THEN 0 ELSE @ + 1,
                  !.hsucc = IF ~ok THEN 0
                            ELSE IF breaker.state = "HalfOpen" THEN @ + 1 ELSE @,
                  !.last[t] = [outcome |-> IF ok THEN "ok" ELSE "failed",
                               retry_after |-> 0, at |-> cbNow]]
        /\ cbTask' = [cbTask EXCEPT ![t].pc = "idle"]
        /\ UNCHANGED cbNow
        /\ Frame("breaker")

CbTick ==
    /\ cbHist.ticks < CbTicks
    /\ \E d \in {1, 29999} : cbNow' = cbNow + d   \* milliseconds
    /\ cbHist' = [cbHist EXCEPT !.ticks = @ + 1]
    /\ UNCHANGED <<breaker, cbTask>>
    /\ Frame("breaker")


NextCb == CbBegin \/ CbReturn \/ CbTick

SpecCb == InitIdle /\ [][NextCb]_vars

----------------------------------------------------------------------------
(* Properties of the circuit breaker                                        *)

\* task t records the success of its operation in this step
RecordsSuccess(t) ==
    cbTask[t].pc = "call" /\ cbTask'[t].pc = "idle" /\ cbHist'.last[t].outcome = "ok"

\* the breaker is Open and the reset timeout has not passed since the last
\* recorded failure
OpenWaiting == breaker.state = "Open" /\ cbNow - breaker.last_failure_time < 30000

----------------------------------------------------------------------------
(* The dispatch and the circuit breaker *)

\* C22: a dispatch that starts after 5 dispatches against the service have
\* failed in a row is rejected as unavailable with retry_after = 30 and makes
\* no attempt against the upstream.
C22_DispatchThroughBreaker ==
    [][(router.failed >= 5 /\ router'.n = router.n + 1) =>
          /\ router'.pc = "done"
          /\ router'.result = "unavailable"
          /\ router'.calls = <<>>]_vars

----------------------------------------------------------------------------
(* Specification of the analytics streamer, services/analytics_streamer.rs. *)
(* Time is counted in whole seconds up to the next tick of the worker's     *)
(* interval.  The worker is scheduled without delay: time does not pass     *)
(* while a tick is due.                                                      *)

BatchSize == 100
BatchInterval == 5
IdSpan == 3    \* accepted events are numbered 0 .. IdSpan - 1, in a cycle

\* a try_send that never finds the channel full
try_send_unbounded(ch, capacity, ev) == [chan |-> Append(ch, ev), ok |-> TRUE]

\* line 101: mpsc::Sender::try_send fails when the channel holds capacity events
try_send(ch, capacity, ev) ==
    IF Len(ch) < capacity THEN [chan |-> Append(ch, ev), ok |-> TRUE]
    ELSE [chan |-> ch, ok |-> FALSE]

\* a batch that is full only above BatchSize
BatchFull_late(batch) == Len(batch) > BatchSize

\* line 239: batch.len() >= 100
BatchFull(batch) == Len(batch) >= BatchSize

\* lines 87-96: the channel is created with the given capacity and the worker
\* is spawned; the first tick of its interval completes at once
AnNew ==
    /\ streamer.pc = "none"
    /\ \E capacity \in {1, 2} :     \* buffer_size given to AnalyticsStreamer::new
          streamer' = [NoStreamer EXCEPT !.pc = "running", !.capacity = capacity]
    /\ UNCHANGED anHist
    /\ Frame("analytics")

\* lines 99-112: send tries the enqueue once; on Err it logs and returns
\* Ok(()), otherwise it returns Ok(())
send(ch, capacity, ev) ==
    LET r == try_send(ch, capacity, ev) IN
    IF ~r.ok THEN [chan |-> r.chan, result |-> "Ok", dropped |-> TRUE]
    ELSE [chan |-> r.chan, result |-> "Ok", dropped |-> FALSE]

\* the worker treats all kinds of event alike; an event is represented by the
\* number it gets when it is accepted
AnSend ==
    /\ streamer.pc # "none"
    /\ ~streamer.closed
    /\ LET r == send(streamer.chan, streamer.capacity, anHist.seq) IN
       /\ streamer' = [streamer EXCEPT !.chan = r.chan]
       /\ anHist' = [anHist EXCEPT !.sent = r.result, !.dropped = r.dropped,
                                   !.seq = IF r.dropped THEN @ ELSE (@ + 1) % IdSpan]
    /\ Frame("analytics")

\* a flush that keeps the batch whose send failed
flush_batch_retry(batch, ok) == IF ok THEN <<>> ELSE batch

\* lines 260-280: flush_batch hands the batch to send_to_analytics_hub, logs
\* the outcome and clears the batch (line 279) whether the send failed or not.
\* ok is the Result of send_to_analytics_hub: the body of lines 283-323 logs
\* the events and returns Ok, the producer it stands for returns its error
flush_batch(batch, ok) == <<>>

\* the bookkeeping of a flush: the sink received the batch, which is in order
\* when it holds the numbers that follow the last one the sink received
Handed(batch, ok) ==
    [anHist EXCEPT
       !.age = 0,
       !.hub = IF ok THEN "ok" ELSE "failed",
       !.next = (@ + Len(batch)) % IdSpan,
       !.ordered = @ /\ \A i \in 1..Len(batch) :
                            batch[i] = (anHist.next + i - 1) % IdSpan]

\* lines 235-242: an event is received and pushed; a full batch is flushed
AnRecv ==
    /\ streamer.pc = "running"
    /\ streamer.chan # <<>>
    /\ LET batch == Append(streamer.batch, Head(streamer.chan)) IN
       IF BatchFull(batch)
       THEN \E ok \in BOOLEAN :      \* the outcome of send_to_analytics_hub
            /\ streamer' = [streamer EXCEPT !.chan = Tail(@),
                                            !.batch = flush_batch(batch, ok)]
            /\ anHist' = [Handed(batch, ok) EXCEPT !.flush = "full"]
       ELSE /\ streamer' = [streamer EXCEPT !.chan = Tail(@), !.batch = batch]
            /\ UNCHANGED anHist
    /\ Frame("analytics")

\* lines 244-248: the interval ticks; a non-empty batch is flushed
AnTick ==
    /\ streamer.pc = "running"
    /\ streamer.timer = 0
    /\ IF streamer.batch # <<>>
       THEN \E ok \in BOOLEAN :      \* the outcome of send_to_analytics_hub
            /\ streamer' = [streamer EXCEPT
                               !.timer = BatchInterval,
                               !.batch = flush_batch(streamer.batch, ok)]
            /\ anHist' = [Handed(streamer.batch, ok) EXCEPT !.flush = "tick"]
       ELSE /\ streamer' = [streamer EXCEPT !.timer = BatchInterval]
            /\ anHist' = [anHist EXCEPT !.age = 0]
    /\ Frame("analytics")

\* one second passes
AnAdvance ==
    /\ streamer.pc = "running"
    /\ streamer.timer > 0
    /\ streamer' = [streamer EXCEPT !.timer = @ - 1]
    /\ anHist' = [anHist EXCEPT
          !.age = IF streamer.batch # <<>> THEN @ + 1 ELSE @]
    /\ Frame("analytics")

\* every clone of the sender is dropped: the channel is closed.  recv then
\* returns the queued events and after them None, which disables the first
\* branch of the select!; the tick branch is never disabled, so the else
\* branch of lines 250-256 is not taken and the worker keeps ticking.
AnClose ==
    /\ streamer.pc = "running"
    /\ ~streamer.closed
    /\ streamer' = [streamer EXCEPT !.closed = TRUE]
    /\ UNCHANGED anHist
    /\ Frame("analytics")

NextAn == AnNew \/ AnSend \/ AnRecv \/ AnTick \/ AnAdvance \/ AnClose

SpecAn == InitIdle /\ [][NextAn]_vars

\* the worker task and the clock keep running
SpecAnFair ==
    SpecAn /\ WF_vars(AnRecv) /\ WF_vars(AnTick) /\ WF_vars(AnAdvance)

----------------------------------------------------------------------------
(* Properties of the analytics streamer *)

\* C23: the channel never holds more events than the capacity it was created
\* with; every send returns Ok; a send that finds the channel full leaves it
\* as it is and drops its event, any other send queues its event.
C23_SendNeverBlocks ==
    /\ [](/\ Len(streamer.chan) <= streamer.capacity
          /\ anHist.sent \in {"none", "Ok"})
    /\ [][/\ Len(streamer'.chan) > Len(streamer.chan) =>
                /\ Len(streamer.chan) < streamer.capacity
                /\ anHist'.sent = "Ok" /\ ~anHist'.dropped
          /\ (anHist' # anHist /\ anHist'.dropped /\ streamer' = streamer) =>
                /\ Len(streamer.chan) = streamer.capacity
                /\ anHist'.sent = "Ok"]_vars

\* a send found a channel of capacity 2 full and dropped its event
C23_Witness ==
    /\ streamer.capacity = 2
    /\ Len(streamer.chan) = 2
    /\ anHist.sent = "Ok"
    /\ anHist.dropped

\* C24: the batch never holds more than 100 events and its oldest event is
\* never older than 5 seconds: the receive that brings it to 100 events
\* flushes it, and every tick of the interval leaves it empty.
C24_BatchBounded ==
    /\ [](/\ Len(streamer.batch) <= 100
          /\ streamer.batch # <<>> => anHist.age <= 5)
    /\ [][/\ (Len(streamer.batch) = 99 /\ Len(streamer'.chan) < Len(streamer.chan))
                => streamer'.batch = <<>>
          /\ (streamer.timer = 0 /\ streamer'.timer # 0)
                => streamer'.batch = <<>>]_vars

\* the batch was flushed because it had reached 100 events
C24_Witness ==
    /\ anHist.flush = "full"
    /\ streamer.batch = <<>>
    /\ streamer.timer > 0

\* C25: once the channel is closed the worker flushes what is queued and
\* batched and then stops.
C25_DrainOnClose ==
    streamer.closed ~>
        (streamer.pc = "stopped" /\ streamer.chan = <<>> /\ streamer.batch = <<>>)

\* C36: the events waiting in the batch and in the channel are exactly the
\* accepted events the sink has not received yet, each once and in the order
\* of their acceptance; every batch handed to the sink continued where the
\* one before it ended; a flush leaves the batch empty whether its send
\* succeeded or failed.
C36_ExactlyOnceInOrder ==
    /\ [](LET pending == streamer.batch \o streamer.chan IN
          /\ anHist.ordered
          /\ \A i \in 1..Len(pending) :
                pending[i] = (anHist.next + i - 1) % IdSpan
          /\ anHist.seq = (anHist.next + Len(pending)) % IdSpan)
    /\ [][anHist'.next # anHist.next => streamer'.batch = <<>>]_vars

\* the send of a full batch failed and events were batched after it
C36_Witness ==
    /\ anHist.hub = "failed"
    /\ anHist.flush = "full"
    /\ anHist.dropped
    /\ Len(streamer.batch) = 2

----------------------------------------------------------------------------
(* Specification of the policy validation: PolicyClient::validate_consumption *)
(* (services/policy_client.rs) and step 1 of consume_service_enhanced        *)

MaxPolicyCalls == 4    \* validations per behaviour

\* consumption_enhanced.rs:84-86: the handler calls the client
PolicyCall ==
    /\ policy.pc \in {"idle", "done"}
    /\ policy.n < MaxPolicyCalls
    /\ policy' = [NoPolicy EXCEPT !.pc = "sent", !.n = policy.n + 1]
    /\ Frame("policy")

\* policy_client.rs:106-157: the call returns
PolicyReply ==
    /\ policy.pc = "sent"
    /\ \E reply \in PolicyReplies, violations \in 0..MaxViolations :
          LET v == validate_consumption(reply, violations) IN
          policy' = [policy EXCEPT !.pc = "gate", !.reply = reply,
                                   !.result = v.result, !.allowed = v.allowed,
                                   !.violations = v.violations,
                                   !.failover = v.failover]
    /\ Frame("policy")

\* consumption_enhanced.rs:88-127: an Err is answered 500; a denial reports
\* its violations and is answered 403; otherwise rate limiting is next
PolicyGateStep ==
    /\ policy.pc = "gate"
    /\ policy' =
          IF policy.result = "Err"
          THEN [policy EXCEPT !.pc = "done", !.next = "500"]
          ELSE IF ~policy.allowed
          THEN IF policy.reported < policy.violations
               THEN [policy EXCEPT !.reported = @ + 1]
               ELSE [policy EXCEPT !.pc = "done", !.next = "403"]
          ELSE [policy EXCEPT !.pc = "done", !.next = "ratelimit"]
    /\ Frame("policy")

NextPolicy == PolicyCall \/ PolicyReply \/ PolicyGateStep

SpecPolicy == InitIdle /\ [][NextPolicy]_vars

\* C26: a validation whose call to the policy engine failed in transport,
\* timed out or was answered 5xx returns Ok with allowed = true and the
\* failover marker, and the handler goes on to rate limiting.
C26_PolicyFailOpen ==
    (policy.pc \in {"gate", "done"}
       /\ policy.reply \in {"transport", "timeout", "500", "503"}) =>
        /\ policy.result = "Ok"
        /\ policy.allowed
        /\ policy.failover
        /\ policy.pc = "done" => policy.next = "ratelimit"

----------------------------------------------------------------------------
(* The policy denial in the pipeline *)

\* number of events of a kind in the analytics channel

\* request r was rejected by the policy stage
PolicyDenied(r) ==
    /\ req[r].pc = "done" /\ req[r].resp = 403
    /\ req[r].trace # <<>> /\ req[r].trace[Len(req[r].trace)] = "policy"

\* C27: a Consume the policy engine denied with n violations is answered 403,
\* has sent n PolicyViolation events, one per violation, and has no usage
\* record: the channel holds as many PolicyViolation events as the denied
\* requests had violations, and a denied request was neither dispatched nor
\* recorded.
C27_PolicyDenial ==
    /\ Cardinality({i \in 1..Len(events) : events[i] = "PolicyViolation"}) =
          SumOver([r \in Requests |->
                      IF PolicyDenied(r) THEN req[r].violations ELSE 0], Requests)
    /\ \A r \in Requests :
          /\ req[r].violations > 0 => PolicyDenied(r)
          /\ PolicyDenied(r) =>
                /\ ~req[r].called
                /\ req[r].rec = "none"
                /\ \A i \in 1..Len(usageRecords) :
                      usageRecords[i].request_id # req[r].id

\* one request was denied with 2 violations and another with 1
C27_Witness ==
    \E r1, r2 \in Requests :
        /\ PolicyDenied(r1) /\ req[r1].violations = 2
        /\ PolicyDenied(r2) /\ req[r2].violations = 1
        /\ Cardinality({i \in 1..Len(events) : events[i] = "PolicyViolation"}) = 3

----------------------------------------------------------------------------
(* Specification of the cost computation, UsageMeter::calculate_cost.  Rates *)
(* and amounts are whole numbers of the smallest currency unit.             *)

MaxCostTokens == 10    \* largest usage.total_tokens of a call

\* usage_meter.rs:90-152 called twice with the same arguments
CostCompute ==
    /\ \E model \in {"per-token", "per-request", "subscription", "tiered"},
          rates \in {<<>>, <<2>>, <<3, 7>>},
          total_tokens \in 0..MaxCostTokens :
          LET pricing == [model |-> model, rates |-> rates] IN
          costCall' = [pc |-> "done", pricing |-> pricing, total_tokens |-> total_tokens,
                   out |-> calculate_cost(pricing, total_tokens),
                   again |-> calculate_cost(pricing, total_tokens)]
    /\ Frame("cost")

NextCost == CostCompute

SpecCost == InitIdle /\ [][NextCost]_vars

\* C28: every call of Compute returns a cost, the same for the same
\* arguments: total_tokens * rates[0] for per-token, rates[0] for per-request,
\* 0 for subscription, and 0 with a breakdown that marks an unknown pricing
\* model for any other model.
C28_ComputeTotal ==
    costCall.pc = "done" =>
        /\ costCall.out.ok
        /\ costCall.again = costCall.out
        /\ costCall.pricing.model = "per-token" =>
              costCall.out.amount = costCall.total_tokens * costCall.pricing.rates[1]
        /\ costCall.pricing.model = "per-request" =>
              costCall.out.amount = costCall.pricing.rates[1]
        /\ costCall.pricing.model = "subscription" => costCall.out.amount = 0
        /\ costCall.pricing.model \notin {"per-token", "per-request", "subscription"} =>
              costCall.out.amount = 0 /\ costCall.out.breakdown = "Unknown pricing model"

----------------------------------------------------------------------------
(* Specification of the quota persistence, QuotaManager::persist_quotas,    *)
(* beside the writers of the cache.  The clock stands still: all rows of    *)
(* quota_usage belong to the current month.                                 *)

MaxCacheWrites == 3    \* update_quota and reset_quota calls per behaviour
MaxRuns == 2           \* persist_quotas runs per behaviour

\* the keys KEYS quota:* returns
LiveKeys == {p \in Pairs : quota[p].present}

\* the orders in which KEYS can return a set of keys
RECURSIVE Orders(_)
Orders(S) ==
    IF S = {} THEN {<<>>}
    ELSE UNION {{<<x>> \o o : o \in Orders(S \ {x})} : x \in S}

\* quota_manager.rs:71-109: a Consume adds its tokens to the counter and gives a
\* counter without expiry the end of the month
CacheWrite ==
    /\ job.writes < MaxCacheWrites
    /\ \E p \in Pairs, n \in TokenChoices :
          LET q1 == RedisIncr(quota[p], n)
              q2 == IF RedisTtl(q1, clock) = -1
                    THEN RedisExpire(q1, get_quota_reset_time(clock) - clock, clock)
                    ELSE q1
          IN  quota' = [quota EXCEPT ![p] = q2]
    /\ job' = [job EXCEPT !.writes = @ + 1]
    /\ UNCHANGED durable
    /\ Frame("jobs")

\* quota_manager.rs:112-131: reset_quota deletes the counter
QuotaReset ==
    /\ job.writes < MaxCacheWrites
    /\ \E p \in LiveKeys : quota' = [quota EXCEPT ![p] = NoQuota]
    /\ job' = [job EXCEPT !.writes = @ + 1]
    /\ UNCHANGED durable
    /\ Frame("jobs")

\* lines 134-142: KEYS quota:*; its failure ends the run with Err
PersistStart ==
    /\ job.pc \in {"idle", "done"}
    /\ job.runs < MaxRuns
    /\ \/ job' = [job EXCEPT !.pc = "done", !.result = "Err", !.keys = <<>>,
                             !.seen = 0, !.runs = @ + 1]
       \/ \E keys \in Orders(LiveKeys) :
             job' = [job EXCEPT !.pc = IF keys = <<>> THEN "done" ELSE "get",
                                !.result = IF keys = <<>> THEN "Ok" ELSE "none",
                                !.keys = keys, !.seen = Len(keys), !.runs = @ + 1]
    /\ UNCHANGED <<quota, durable>>
    /\ Frame("jobs")

\* lines 145-148: GET of the next key; an error, which a missing key is for
\* an i64, is replaced by 0
PersistGet ==
    /\ job.pc = "get"
    /\ LET key == Head(job.keys) IN
       \E redisok \in BOOLEAN :
          job' = [job EXCEPT !.pc = "upsert", !.key = key,
                             !.used_tokens = IF redisok /\ quota[key].present
                                             THEN quota[key].val ELSE 0]
    /\ UNCHANGED <<quota, durable>>
    /\ Frame("jobs")

\* lines 151-168: the upsert of the row; its failure ends the run with Err
PersistUpsert ==
    /\ job.pc = "upsert"
    /\ \E dbok \in BOOLEAN :
          IF dbok
          THEN /\ durable' = [durable EXCEPT ![job.key] = job.used_tokens]
               /\ job' = [job EXCEPT !.keys = Tail(@),
                                     !.pc = IF Tail(job.keys) = <<>> THEN "done" ELSE "get",
                                     !.result = IF Tail(job.keys) = <<>> THEN "Ok" ELSE "none"]
          ELSE /\ UNCHANGED durable
               /\ job' = [job EXCEPT !.keys = Tail(@), !.pc = "done", !.result = "Err"]
    /\ UNCHANGED quota
    /\ Frame("jobs")

\* main.rs:104-106 with quota_manager.rs:177-208: load_quotas copies the rows
\* of the current month into the cache, each with the end of the month as
\* expiry; its failure ends main
JobsBoot ==
    /\ job.main = "boot"
    /\ \/ /\ job' = [job EXCEPT !.main = "failed"]
          /\ UNCHANGED quota
       \/ /\ job' = [job EXCEPT !.main = "running"]
          /\ quota' = [p \in Pairs |->
                IF durable[p] = None THEN quota[p]
                ELSE RedisExpire([present |-> TRUE, val |-> durable[p], exp |-> None],
                                 get_quota_reset_time(clock) - clock, clock)]
    /\ UNCHANGED durable
    /\ Frame("jobs")

\* an instance of the service starts (JobsBoot) while the others serve
NextPersist ==
    CacheWrite \/ QuotaReset \/ PersistStart \/ PersistGet \/ PersistUpsert \/ JobsBoot

SpecPersist == InitIdle /\ [][NextPersist]_vars

\* C30: a run of the persist job ends only when no key of its scan is left,
\* also after the upsert of a key failed, and the value it takes for a key is
\* the value the cache holds for that key.
C30_PersistTolerant ==
    /\ [](job.pc = "done" => job.keys = <<>>)
    /\ [][(job.pc = "get" /\ job'.pc = "upsert") =>
             job'.used_tokens = CounterVal(job'.key)]_vars

\* C40: within the month a counter of the cache goes away only by reset_quota
\* and otherwise never gets smaller and never loses its expiry, whichever
\* step is taken, the load_quotas of a starting instance included.
C40_CounterMonotone ==
    [][\A p \in Pairs :
          quota[p].present =>
              \/ (quota'[p] = NoQuota /\ job'.writes = job.writes + 1)
              \/ /\ quota'[p].present
                 /\ quota'[p].val >= quota[p].val
                 /\ quota[p].exp # None => quota'[p].exp # None]_vars

----------------------------------------------------------------------------
(* Specification of the background tasks of the service: what main starts   *)
(* (main.rs:104-118) beside the writers of the cache                        *)

MaxSlaRuns == 2        \* ticks of the SLA monitoring task that are told apart

\* main.rs:108-118: the one task main spawns, the SLA monitoring loop; the
\* loop has no exit, its ticks are counted round and round
SlaTick ==
    /\ job.main = "running"
    /\ job' = [job EXCEPT !.sla = (@ + 1) % (MaxSlaRuns + 1)]
    /\ UNCHANGED <<quota, durable>>
    /\ Frame("jobs")

NextJobs == JobsBoot \/ SlaTick \/ CacheWrite \/ QuotaReset

SpecJobs == InitIdle /\ [][NextJobs]_vars

\* main and the tasks it spawned keep running
SpecJobsFair == SpecJobs /\ WF_vars(JobsBoot) /\ WF_vars(SlaTick)

\* C29: while the service runs, the durable rows catch up with the cache again
\* and again: every counter of the cache has its value in its quota_usage row.
C29_EventuallyPersisted ==
    []<>(job.main = "running" =>
            \A p \in Pairs : quota[p].present => durable[p] = quota[p].val)

----------------------------------------------------------------------------
(* Specification of the SLA monitor, sla_monitor.rs.  A ratio is a pair     *)
(* <<numerator, denominator>>; SlaConfig.availability, a fraction, is given *)
(* in thousandths; the threshold 0.001 of the error rate is 1 thousandth    *)

MaxSlaRows == 3        \* rows of usage_records inside a window
MaxSlaCalls == 3       \* SLAMonitor calls per behaviour

\* sla_monitor.rs:194-288, get_sla_status: total and errors are the counts of
\* the window, avg the average duration_ms; timeout_ms of the service is 100
GetSlaStatus ==
    /\ slaMon.n < MaxSlaCalls
    /\ \E total \in 0..MaxSlaRows, avg \in {99, 100}, availability \in {999, 1000} :
       \E errors \in 0..total :
        LET \* lines 237-241
            error_rate == IF total > 0 THEN <<errors, total>> ELSE <<0, 1>>
            \* lines 244-248
            uptime == IF total > 0 THEN <<(total - errors) * 100, total>>
                      ELSE <<100, 1>>
            \* lines 268-270
            latency_compliant == avg < 100
            error_rate_compliant == error_rate[1] * 1000 < error_rate[2]
            uptime_compliant == uptime[1] * 1000 >= availability * uptime[2]
        IN slaMon' = [slaMon EXCEPT
                !.call = "status", !.n = @ + 1,
                !.total = total, !.errors = errors, !.availability = availability,
                !.latency = avg, !.uptime = uptime,
                !.latency_compliant = latency_compliant,
                !.error_rate_compliant = error_rate_compliant,
                !.uptime_compliant = uptime_compliant,
                \* line 286
                !.overall_compliant = latency_compliant /\ error_rate_compliant
                                        /\ uptime_compliant]
    /\ Frame("sla")

\* sla_monitor.rs:23-74, check_sla_violation, with record_violation
\* (lines 136-169) whose INSERT may fail; timeout_ms of the service is 100
CheckSlaViolation ==
    /\ slaMon.n < MaxSlaCalls
    /\ \E latency_ms \in {100, 101}, status \in {"success", "error"},
          dbok \in BOOLEAN :
        slaMon' =
            LET called == [slaMon EXCEPT !.call = "check", !.n = @ + 1,
                                         !.latency = latency_ms, !.status = status]
            IN  IF latency_ms > 100
                \* lines 32-58: the violation is recorded and returned
                THEN IF dbok
                     THEN [called EXCEPT !.result = "violation", !.recorded = @ + 1]
                     ELSE [called EXCEPT !.result = "Err"]
                \* lines 61-73
                ELSE IF status = "error"
                     THEN [called EXCEPT !.result = "none", !.spawned = @ + 1]
                     ELSE [called EXCEPT !.result = "none"]
    /\ Frame("sla")

\* sla_monitor.rs:77-133, check_error_rate_sla in the task that line 62 spawned
ErrorRateEval ==
    /\ slaMon.spawned > 0
    /\ \E total \in 0..MaxSlaRows, dbok \in BOOLEAN : \E errors \in 0..total :
        slaMon' = [slaMon EXCEPT
            !.spawned = @ - 1,
            !.recorded = IF dbok /\ total > 0 /\ errors * 1000 > total
                         THEN @ + 1 ELSE @]
    /\ Frame("sla")

NextSla == GetSlaStatus \/ CheckSlaViolation \/ ErrorRateEval

SpecSla == InitIdle /\ [][NextSla]_vars

\* C31: GetStatus reports uptime as success/total over the window, and
\* uptime_compliant exactly when that ratio is at least the availability of
\* the service; overall_compliant is the conjunction of the three flags.
C31_StatusCompliance ==
    (slaMon.call = "status" /\ slaMon.total > 0) =>
        /\ slaMon.uptime[1] * slaMon.total
             = (slaMon.total - slaMon.errors) * 100 * slaMon.uptime[2]
        /\ slaMon.uptime_compliant <=>
             (slaMon.total - slaMon.errors) * 1000 >= slaMon.availability * slaMon.total
        /\ slaMon.overall_compliant <=>
             (slaMon.latency_compliant /\ slaMon.error_rate_compliant
                /\ slaMon.uptime_compliant)

\* C37: every request the monitor evaluates with status = error spawns an
\* error-rate evaluation, whether or not it also violated the latency bound.
C37_ErrorSpawnsEvaluation ==
    [][(slaMon'.n = slaMon.n + 1 /\ slaMon'.call = "check"
          /\ slaMon'.status = "error") =>
            slaMon'.spawned = slaMon.spawned + 1]_vars

----------------------------------------------------------------------------
(* Specification of the circuit breaker with one step per access of an      *)
(* atomic, retry.rs:199-259: the tasks of a multi-threaded runtime run the   *)
(* methods side by side, every load, store and fetch_add is SeqCst.  The pc  *)
(* of a task holds what the task has read so far.                           *)

\* lines 199-224, allow_request as execute calls it (lines 268-273)
CbAllowStep ==
    \E t \in CbTasks :
        /\ cbTask[t].pc \in {"idle", "ar_time", "ar_half", "ar_zero"}
        /\ IF cbTask[t].pc = "idle"
           \* line 200: self.state()
           THEN /\ cbTask' = [cbTask EXCEPT ![t].pc =
                        IF breaker.state = "Open" THEN "ar_time" ELSE "call"]
                /\ UNCHANGED breaker
           ELSE IF cbTask[t].pc = "ar_time"
           \* lines 207-213: last_failure_time.load and the clock
           THEN /\ cbTask' = [cbTask EXCEPT ![t].pc =
                        IF TimedOut(cbNow, breaker.last_failure_time)
                        THEN "ar_half" ELSE "idle"]
                /\ UNCHANGED breaker
           ELSE IF cbTask[t].pc = "ar_half"
           \* line 214: state.store(2)
           THEN /\ breaker' = [breaker EXCEPT !.state = "HalfOpen"]
                /\ cbTask' = [cbTask EXCEPT ![t].pc = "ar_zero"]
           \* line 215: successes.store(0)
           ELSE /\ breaker' = [breaker EXCEPT !.successes = 0]
                /\ cbTask' = [cbTask EXCEPT ![t].pc = "call"]
        /\ UNCHANGED <<cbNow, cbHist>>
        /\ Frame("breaker")

\* lines 227-237, record_success when the operation of execute returned Ok
CbSuccessStep ==
    \E t \in CbTasks :
        /\ cbTask[t].pc \in {"call", "rs_load", "rs_add", "rs_close"}
        /\ IF cbTask[t].pc = "call"
           \* line 228: failures.store(0)
           THEN /\ breaker' = [breaker EXCEPT !.failures = 0]
                /\ cbTask' = [cbTask EXCEPT ![t].pc = "rs_load"]
           ELSE IF cbTask[t].pc = "rs_load"
           \* line 230: self.state()
           THEN /\ cbTask' = [cbTask EXCEPT ![t].pc =
                        IF breaker.state = "HalfOpen" THEN "rs_add" ELSE "idle"]
                /\ UNCHANGED breaker
           ELSE IF cbTask[t].pc = "rs_add"
           \* lines 231-232: successes.fetch_add(1) + 1
           THEN /\ breaker' = [breaker EXCEPT !.successes = @ + 1]
                /\ cbTask' = [cbTask EXCEPT ![t].pc =
                        IF breaker.successes + 1 >= success_threshold
                        THEN "rs_close" ELSE "idle"]
           \* line 233: state.store(0)
           ELSE /\ breaker' = [breaker EXCEPT !.state = "Closed"]
                /\ cbTask' = [cbTask EXCEPT ![t].pc = "idle"]
        /\ UNCHANGED <<cbNow, cbHist>>
        /\ Frame("breaker")

\* lines 240-259, record_failure when the operation of execute returned Err
CbFailureStep ==
    \E t \in CbTasks :
        /\ cbTask[t].pc \in {"call", "rf_load", "rf_half", "rf_add", "rf_open"}
        /\ IF cbTask[t].pc = "call"
           \* lines 241-246: last_failure_time.store(now)
           THEN /\ breaker' = [breaker EXCEPT !.last_failure_time = cbNow]
                /\ cbTask' = [cbTask EXCEPT ![t].pc = "rf_load"]
           ELSE IF cbTask[t].pc = "rf_load"
           \* line 248: self.state()
           THEN /\ cbTask' = [cbTask EXCEPT ![t].pc =
                        IF breaker.state = "HalfOpen" THEN "rf_half" ELSE "rf_add"]
                /\ UNCHANGED breaker
           ELSE IF cbTask[t].pc = "rf_add"
           \* lines 254-255: failures.fetch_add(1) + 1
           THEN /\ breaker' = [breaker EXCEPT !.failures = @ + 1]
                /\ cbTask' = [cbTask EXCEPT ![t].pc =
                        IF breaker.failures + 1 >= failure_threshold
                        THEN "rf_open" ELSE "idle"]
           \* lines 249 and 256: state.store(1)
           ELSE /\ breaker' = [breaker EXCEPT !.state = "Open"]
                /\ cbTask' = [cbTask EXCEPT ![t].pc = "idle"]
        /\ UNCHANGED <<cbNow, cbHist>>
        /\ Frame("breaker")

NextCbAtomic == CbAllowStep \/ CbSuccessStep \/ CbFailureStep \/ CbTick

SpecCbAtomic == InitIdle /\ [][NextCbAtomic]_vars

\* C32: a transition of the state word applies to the state it was decided
\* on, whatever the interleaving: the breaker becomes Closed only from
\* HalfOpen and HalfOpen only from Open, so that a failure recorded in
\* HalfOpen, which opens the breaker, is not undone by a success that was
\* counted before it.
C32_TransitionsAtomic ==
    [][/\ (breaker'.state = "Closed" /\ breaker.state # "Closed") =>
              breaker.state = "HalfOpen"
       /\ (breaker'.state = "HalfOpen" /\ breaker.state # "HalfOpen") =>
              breaker.state = "Open"]_vars

----------------------------------------------------------------------------
(* Specification of with_retry, retry.rs:82-132.  last_error is whether the  *)
(* Option holds an error; a step is one iteration of the loop with its sleep *)

MaxRetries == 2        \* largest config.max_retries
MaxRetryCalls == 3     \* with_retry calls per behaviour

\* line 91
RetryStart ==
    /\ retry.pc \in {"idle", "done"}
    /\ retry.n < MaxRetryCalls
    /\ \E max_retries \in 0..MaxRetries :
        retry' = [pc |-> "loop", max_retries |-> max_retries, attempt |-> 0,
                  last_error |-> FALSE, timeouts |-> 0, result |-> "none",
                  n |-> retry.n + 1]
    /\ Frame("retry")

\* lines 93-129: the operation returns Ok, a retryable or another error, or
\* the timeout of the attempt fires first
RetryAttempt ==
    /\ retry.pc = "loop"
    /\ \E outcome \in {"Ok", "retryable", "fatal", "timeout"} :
        LET last == retry.attempt >= retry.max_retries IN
        retry' =
            IF outcome = "Ok"
            THEN [retry EXCEPT !.pc = "done", !.result = "Ok"]
            ELSE IF outcome \in {"retryable", "fatal"}
            \* lines 96-112
            THEN IF outcome = "fatal" \/ last
                 THEN [retry EXCEPT !.pc = "done", !.result = "Err"]
                 ELSE [retry EXCEPT !.attempt = @ + 1, !.last_error = TRUE]
            \* lines 113-127: expect panics on None
            ELSE IF last
                 THEN [retry EXCEPT !.pc = "done", !.timeouts = @ + 1,
                                    !.result = IF retry.last_error THEN "Err"
                                               ELSE "panic"]
                 ELSE [retry EXCEPT !.attempt = @ + 1, !.timeouts = @ + 1]
    /\ Frame("retry")

NextRetry == RetryStart \/ RetryAttempt

SpecRetry == InitIdle /\ [][NextRetry]_vars

\* C35: a timed out attempt counts as a failed one and the loop goes on; with_retry
\* returns Ok or an error to its caller after at most max_retries + 1 attempts
\* and never panics, also when every attempt timed out.
C35_RetryReturns ==
    /\ retry.attempt <= retry.max_retries
    /\ retry.pc = "done" => retry.result \in {"Ok", "Err"}
    /\ (retry.pc = "done" /\ retry.timeouts = retry.max_retries + 1) =>
            retry.result = "Err"


----------------------------------------------------------------------------
(* Specification of the usage extraction, request_router.rs:88-105 and       *)
(* 152-188.  A JSON value is the record of its kind and its number; the body *)
(* is what response.get("usage") finds in it and the length of its text.  A  *)
(* number of 64 bits is hi * 2^32 + lo.                                      *)

\* lines 152-188.  Value::get is None on a value that is not an object and
\* as_u64 is None on a value that is not a non-negative integer; "as u32"
\* keeps the low 32 bits, lo.  The sum of line 169 stays below 2^32 here.
extract_usage(usage, text_len) ==
    LET count(v) == IF v.kind = "u64" THEN v.lo ELSE 0
        prompt_tokens == count(usage.prompt_tokens)
        completion_tokens == count(usage.completion_tokens)
    IN  IF usage.kind # "absent"
        THEN [ok |-> TRUE, warned |-> FALSE,
              prompt_tokens |-> prompt_tokens,
              completion_tokens |-> completion_tokens,
              total_tokens |->
                  IF usage.total_tokens.kind = "u64"
                  THEN usage.total_tokens.lo
                  ELSE prompt_tokens + completion_tokens]
        \* lines 177-187: warn!, response.to_string().len() / 4
        ELSE [ok |-> TRUE, warned |-> TRUE,
              prompt_tokens |-> 0,
              completion_tokens |-> text_len \div 4,
              total_tokens |-> text_len \div 4]

\* lines 88-105: the body of a success status is parsed and its usage is
\* extracted; route_request returns Ok when extract_usage does
ExtractStep ==
    /\ \E kind \in {"absent", "null", "object"}, text_len \in {3, 8, 41} :
       \E prompt_tokens, completion_tokens, total_tokens \in
              {[kind |-> "absent", hi |-> 0, lo |-> 0],
               [kind |-> "string", hi |-> 0, lo |-> 0],
               [kind |-> "u64", hi |-> 0, lo |-> 10],
               [kind |-> "u64", hi |-> 1, lo |-> 5]} :
          LET none == [kind |-> "absent", hi |-> 0, lo |-> 0]
              usage == IF kind = "object"
                       THEN [kind |-> kind, prompt_tokens |-> prompt_tokens,
                             completion_tokens |-> completion_tokens,
                             total_tokens |-> total_tokens]
                       ELSE [kind |-> kind, prompt_tokens |-> none,
                             completion_tokens |-> none, total_tokens |-> none]
          IN  extract' = [called |-> TRUE, usage |-> usage, text_len |-> text_len,
                          result |-> extract_usage(usage, text_len)]
    /\ Frame("usage")

NextUsage == ExtractStep

SpecUsage == InitIdle /\ [][NextUsage]_vars

\* C38: the dispatch succeeds; the three counts of a usage object come back as
\* they are; a body without a usage object gets total_tokens =
\* floor(length of its text / 4) and a warning.
C38_UsageExtraction ==
    extract.called =>
        LET u == extract.usage
            r == extract.result
        IN  /\ r.ok
            /\ (/\ u.kind = "object"
                /\ u.prompt_tokens.kind = "u64"
                /\ u.completion_tokens.kind = "u64"
                /\ u.total_tokens.kind = "u64") =>
                   /\ u.prompt_tokens.hi = 0 /\ r.prompt_tokens = u.prompt_tokens.lo
                   /\ u.completion_tokens.hi = 0
                   /\ r.completion_tokens = u.completion_tokens.lo
                   /\ u.total_tokens.hi = 0 /\ r.total_tokens = u.total_tokens.lo
            /\ u.kind # "object" =>
                   /\ r.total_tokens = extract.text_len \div 4
                   /\ r.warned

====
